---- MODULE Spec2Model ----
(***************************************************************************)
(* Model of feishu_contracts: the mapping execution engine                 *)
(* (transform/transformer.py).  run() is a state machine: load the inputs, *)
(* build the form pre-filter and the group index, process the target sheet *)
(* specs one by one, save the workbook.                                    *)
(*                                                                         *)
(* Strings that the code trims, joins or compares by content are sequences *)
(* of one-character strings (<<"k","1">> is "k1"); names of sheets, tables *)
(* and source columns, which the code only compares, are TLA+ strings.     *)
(***************************************************************************)
EXTENDS Integers, Sequences, FiniteSets, TLC

VARIABLES
    mapping,    \* the parsed mapping specification (the YAML document)
    source,     \* the source workbook on disk: table name -> table
    template,   \* the template workbook on disk: sheet name -> cells
    pc,         \* position of run(): "start", "loaded", "sheets", "saved", "raised"
    join_key,   \* run()'s join_key
    df_map,     \* run()'s df_map: table name -> table
    groups,     \* run()'s groups: table name -> (join-key value -> rows)
    wb,         \* the open output workbook: sheet name -> cells
    ti,         \* index of the next target sheet spec of the loop at line 545
    out,        \* the file at out_path: <<>> while unwritten, else <<workbook>>
    saves,      \* number of wb.save(out_path) calls made
    calls,      \* one record per executed loop iteration: what the call did
    dict_files, \* the external dictionary workbooks on disk: path -> sheets
    LOOKUP_TABLES,  \* the module's global lookup registry: table name -> table
    cin,        \* a resolution on its own: the candidate values and the mapping
    cres,       \* its outcome: <<>> until it is made, then <<outcome>>
    sheet_names,    \* convert_jsonl's sheet naming: the used map and the names given
    limiter,    \* a RateLimiter object, the clock and the threads that call it
    search,     \* one call of a search method of FeishuContractClient
    fetch       \* one run of run_fetch

vars == <<mapping, source, template, pc, join_key, df_map, groups, wb, ti, out, saves, calls,
          dict_files, LOOKUP_TABLES, cin, cres, sheet_names, limiter, search, fetch>>

\* run()'s own state
ownVars == <<mapping, source, template, pc, join_key, df_map, groups, wb, ti, out, saves, calls,
            dict_files, LOOKUP_TABLES>>

\* the state of the fetch package, which run() never touches
fetchVars == <<sheet_names, limiter, search, fetch>>

\* what run() leaves alone once the inputs are loaded
envVars == <<dict_files, LOOKUP_TABLES, cin, cres, sheet_names, limiter, search, fetch>>

\* the value of a variable whose part of the program is not running
NoRun == <<>>

(***************************************************************************)
(* Bounds of the model.                                                    *)
(***************************************************************************)
MaxRows == 2     \* rows per source table
MaxSpecs == 2    \* target sheet specs per mapping specification
MaxDictSources == 2   \* external dictionary sources per mapping specification
MaxChain == 2    \* steps per transform chain of a resolution on its own
MaxKeys == 3     \* list keys given a sheet name in one conversion
MaxThreads == 2  \* threads sharing one RateLimiter
MaxTime == 2     \* ticks of the clock of the limiter
MaxCooldowns == 2    \* calls of set_cooldown on one RateLimiter
MaxPages == 2    \* pages of one search
MaxFaults == 2   \* searches and detail fetches that fail in one run

(***************************************************************************)
(* Values flowing through a transform chain: None, str, int, float, list,  *)
(* dict and Timestamp.  Every value is a record of the same shape so that  *)
(* values of different types can be compared.  A float is n * 10^(-e) with *)
(* no trailing zero in n when e > 0; a dict is the sequence of its items   *)
(* in insertion order; a Timestamp is named by its str() rendering, or by  *)
(* "@" and the epoch digits with the unit width in n when it was read as   *)
(* an epoch number.                                                        *)
(***************************************************************************)
V(t, s, n, e, items, fields) ==
    [t |-> t, s |-> s, n |-> n, e |-> e, items |-> items, fields |-> fields]

NoneV == V("none", <<>>, 0, 0, <<>>, <<>>)
Str(s) == V("str", s, 0, 0, <<>>, <<>>)
IntV(n) == V("int", <<>>, n, 0, <<>>, <<>>)
ListV(items) == V("list", <<>>, 0, 0, items, <<>>)
DictV(fields) == V("dict", <<>>, 0, 0, <<>>, fields)
TsV(s) == V("ts", s, 0, 0, <<>>, <<>>)
TsEpoch(digits, width) == V("ts", <<"@">> \o digits, width, 0, <<>>, <<>>)

RECURSIVE Normalized(_, _)
Normalized(n, e) == IF e > 0 /\ n % 10 = 0 THEN Normalized(n \div 10, e - 1) ELSE <<n, e>>

FloatV(n, e) == V("float", <<>>, Normalized(n, e)[1], Normalized(n, e)[2], <<>>, <<>>)

EmptyDict == <<>>
Get(d, k, dflt) == IF k \in DOMAIN d THEN d[k] ELSE dflt

Max(S) == CHOOSE m \in S : \A x \in S : x <= m

\* d.get(k) on a dict value
DictHas(d, k) == \E j \in 1..Len(d.fields) : d.fields[j].k = k
DictGet(d, k) ==
    IF DictHas(d, k)
    THEN d.fields[CHOOSE j \in 1..Len(d.fields) : d.fields[j].k = k].v
    ELSE NoneV

(***************************************************************************)
(* Strings: sequences of one-character strings.                            *)
(***************************************************************************)
DigitChars == <<"0", "1", "2", "3", "4", "5", "6", "7", "8", "9">>

IsDigit(c) == \E d \in 1..10 : DigitChars[d] = c
DigitVal(c) == (CHOOSE d \in 1..10 : DigitChars[d] = c) - 1

\* str.isdigit()
isdigit(s) == s # <<>> /\ \A j \in 1..Len(s) : IsDigit(s[j])

RECURSIVE NatOf(_)
NatOf(s) ==
    IF s = <<>> THEN 0 ELSE NatOf(SubSeq(s, 1, Len(s) - 1)) * 10 + DigitVal(s[Len(s)])

RECURSIVE NatStr(_)
NatStr(n) ==
    IF n < 10 THEN <<DigitChars[n + 1]>> ELSE NatStr(n \div 10) \o <<DigitChars[(n % 10) + 1]>>

RECURSIVE Pow10(_)
Pow10(e) == IF e = 0 THEN 1 ELSE 10 * Pow10(e - 1)

RECURSIVE ZeroPad(_, _)
ZeroPad(s, w) == IF Len(s) >= w THEN s ELSE ZeroPad(<<"0">> \o s, w)

Abs(n) == IF n < 0 THEN -n ELSE n

\* str(int)
IntStr(n) == IF n < 0 THEN <<"-">> \o NatStr(-n) ELSE NatStr(n)

\* str(float) of a float written without an exponent
FloatStr(n, e) ==
    (IF n < 0 THEN <<"-">> ELSE <<>>)
    \o NatStr(Abs(n) \div Pow10(e)) \o <<".">>
    \o (IF e = 0 THEN <<"0">> ELSE ZeroPad(NatStr(Abs(n) % Pow10(e)), e))

RECURSIVE lstrip(_)
lstrip(s) == IF s # <<>> /\ Head(s) = " " THEN lstrip(Tail(s)) ELSE s

RECURSIVE rstrip(_)
rstrip(s) == IF s # <<>> /\ s[Len(s)] = " " THEN rstrip(SubSeq(s, 1, Len(s) - 1)) ELSE s

strip(s) == rstrip(lstrip(s))

StartsWith(s, p) == Len(s) >= Len(p) /\ SubSeq(s, 1, Len(p)) = p

\* s.replace(old, new)
RECURSIVE Replace(_, _, _)
Replace(s, old, new) ==
    IF old = <<>>
    THEN (IF s = <<>> THEN new ELSE new \o <<Head(s)>> \o Replace(Tail(s), old, new))
    ELSE IF s = <<>> THEN <<>>
    ELSE IF StartsWith(s, old)
    THEN new \o Replace(SubSeq(s, Len(old) + 1, Len(s)), old, new)
    ELSE <<Head(s)>> \o Replace(Tail(s), old, new)

\* repr(x), for strings that hold no quote and no backslash
RECURSIVE py_repr(_)
RECURSIVE ReprItems(_)
RECURSIVE ReprFields(_)
ReprItems(items) ==
    IF items = <<>> THEN <<>>
    ELSE py_repr(Head(items)) \o (IF Len(items) > 1 THEN <<",", " ">> ELSE <<>>)
         \o ReprItems(Tail(items))

ReprFields(fields) ==
    IF fields = <<>> THEN <<>>
    ELSE <<"'">> \o Head(fields).k \o <<"'", ":", " ">> \o py_repr(Head(fields).v)
         \o (IF Len(fields) > 1 THEN <<",", " ">> ELSE <<>>) \o ReprFields(Tail(fields))

py_repr(x) ==
    CASE x.t = "none" -> <<"N", "o", "n", "e">>
      [] x.t = "str" -> <<"'">> \o x.s \o <<"'">>
      [] x.t = "int" -> IntStr(x.n)
      [] x.t = "float" -> FloatStr(x.n, x.e)
      [] x.t = "list" -> <<"[">> \o ReprItems(x.items) \o <<"]">>
      [] x.t = "dict" -> <<"{">> \o ReprFields(x.fields) \o <<"}">>
      [] OTHER -> <<"T", "i", "m", "e", "s", "t", "a", "m", "p", "(", "'">> \o x.s \o <<"'", ")">>

\* str(x)
py_str(x) == IF x.t \in {"str", "ts"} THEN x.s ELSE py_repr(x)

\* lines 20-23
_to_str(x) == IF x = NoneV THEN <<>> ELSE py_str(x)

(***************************************************************************)
(* _number_parse, lines 71-86.  float() is modelled on strings made of a   *)
(* sign, digits and one point; exponents, "inf", "nan" and underscores do  *)
(* not occur in the strings of the model.                                  *)
(***************************************************************************)
Unsigned(s) == IF s # <<>> /\ Head(s) \in {"+", "-"} THEN Tail(s) ELSE s

PointAt(s) == IF \E j \in 1..Len(s) : s[j] = "."
              THEN CHOOSE j \in 1..Len(s) : s[j] = "." /\ \A i \in 1..(j - 1) : s[i] # "."
              ELSE 0

IntPart(s) == IF PointAt(s) = 0 THEN s ELSE SubSeq(s, 1, PointAt(s) - 1)
FracPart(s) == IF PointAt(s) = 0 THEN <<>> ELSE SubSeq(s, PointAt(s) + 1, Len(s))

\* float(s) succeeds
IsFloatText(s) ==
    LET u == Unsigned(strip(s))
    IN  /\ IntPart(u) \o FracPart(u) # <<>>
        /\ \A j \in 1..Len(IntPart(u)) : IsDigit(IntPart(u)[j])
        /\ \A j \in 1..Len(FracPart(u)) : IsDigit(FracPart(u)[j])

\* float(s)
FloatOf(s) ==
    LET t == strip(s)
        u == Unsigned(t)
        m == NatOf(IntPart(u) \o FracPart(u))
    IN  FloatV(IF Head(t) = "-" THEN -m ELSE m, Len(FracPart(u)))

\* int(s) succeeds: an optional sign and digits
IsIntText(s) == isdigit(Unsigned(strip(s)))

\* int(s)
IntOf(s) ==
    LET t == strip(s)
    IN  IF Head(t) = "-" THEN -NatOf(Unsigned(t)) ELSE NatOf(Unsigned(t))

\* a number parser that hands back what it cannot parse
_number_parse_keep_text(txt, thousands, decimal) ==
    IF txt = NoneV THEN NoneV
    ELSE IF txt.t = "int" THEN FloatV(txt.n, 0)
    ELSE IF txt.t = "float" THEN txt
    ELSE LET s0 == strip(py_str(txt))
             s1 == IF thousands # <<>> THEN Replace(s0, thousands, <<>>) ELSE s0
             s2 == IF decimal # <<".">> THEN Replace(s1, decimal, <<".">>) ELSE s1
         IN  IF s0 = <<>> THEN NoneV
             ELSE IF IsFloatText(s2) THEN FloatOf(s2)
             ELSE txt

\* lines 71-86
_number_parse(txt, thousands, decimal) ==
    IF txt = NoneV THEN NoneV
    ELSE IF txt.t = "int" THEN FloatV(txt.n, 0)
    ELSE IF txt.t = "float" THEN txt
    ELSE LET s0 == strip(py_str(txt))
             s1 == IF thousands # <<>> THEN Replace(s0, thousands, <<>>) ELSE s0
             s2 == IF decimal # <<".">> THEN Replace(s1, decimal, <<".">>) ELSE s1
         IN  IF s0 = <<>> THEN NoneV
             ELSE IF IsFloatText(s2) THEN FloatOf(s2)
             ELSE NoneV

(***************************************************************************)
(* _java_dt_to_py and _try_parse_date, lines 26-68.  pd.to_datetime with a *)
(* format is modelled directive by directive; free-form pd.to_datetime is  *)
(* modelled on the date shapes listed in FreeFormats and rejects the other *)
(* strings of the model.                                                   *)
(***************************************************************************)
\* lines 27-31: the replacements are made one after the other
_java_dt_to_py(pattern) ==
    LET r1 == Replace(pattern, <<"y", "y", "y", "y">>, <<"%", "Y">>)
        r2 == Replace(r1, <<"M", "M">>, <<"%", "m">>)
        r3 == Replace(r2, <<"d", "d">>, <<"%", "d">>)
        r4 == Replace(r3, <<"H", "H">>, <<"%", "H">>)
        r5 == Replace(r4, <<"m", "m">>, <<"%", "M">>)
    IN  Replace(r5, <<"s", "s">>, <<"%", "S">>)

Directives == {"Y", "m", "d", "H", "M", "S"}

NoFields == [k \in Directives |-> IF k = "Y" THEN 1900 ELSE IF k \in {"m", "d"} THEN 1 ELSE 0]

FieldWidth(k, s) ==
    IF k = "Y" THEN 4
    ELSE IF Len(s) >= 2 /\ IsDigit(s[1]) /\ IsDigit(s[2]) THEN 2 ELSE 1

FieldInRange(k, n) ==
    CASE k = "Y" -> TRUE
      [] k = "m" -> n \in 1..12
      [] k = "d" -> n \in 1..31
      [] k = "H" -> n \in 0..23
      [] OTHER -> n \in 0..59

\* the text is matched against the format; fields holds the directives read
RECURSIVE strptime(_, _, _)
strptime(s, f, fields) ==
    IF f = <<>> THEN [ok |-> s = <<>>, fields |-> fields]
    ELSE IF Head(f) = "%"
    THEN IF Len(f) < 2 \/ f[2] \notin Directives THEN [ok |-> FALSE, fields |-> fields]
         ELSE LET k == f[2]
                  w == FieldWidth(k, s)
                  text == SubSeq(s, 1, w)
              IN  IF Len(s) < w \/ ~isdigit(text) \/ ~FieldInRange(k, NatOf(text))
                  THEN [ok |-> FALSE, fields |-> fields]
                  ELSE strptime(SubSeq(s, w + 1, Len(s)), SubSeq(f, 3, Len(f)),
                                [fields EXCEPT ![k] = NatOf(text)])
    ELSE IF s # <<>> /\ Head(s) = Head(f) THEN strptime(Tail(s), Tail(f), fields)
    ELSE [ok |-> FALSE, fields |-> fields]

IsLeap(y) == y % 4 = 0 /\ (y % 100 # 0 \/ y % 400 = 0)

DaysIn(y, m) ==
    IF m = 2 THEN (IF IsLeap(y) THEN 29 ELSE 28)
    ELSE IF m \in {4, 6, 9, 11} THEN 30 ELSE 31

\* str(Timestamp)
TimestampOf(fields) ==
    TsV(ZeroPad(NatStr(fields["Y"]), 4) \o <<"-">> \o ZeroPad(NatStr(fields["m"]), 2)
        \o <<"-">> \o ZeroPad(NatStr(fields["d"]), 2) \o <<" ">>
        \o ZeroPad(NatStr(fields["H"]), 2) \o <<":">> \o ZeroPad(NatStr(fields["M"]), 2)
        \o <<":">> \o ZeroPad(NatStr(fields["S"]), 2))

\* pd.to_datetime(s, format=pyfmt, errors="raise"): NoneV stands for a raise
to_datetime_format(s, pyfmt) ==
    LET r == strptime(s, pyfmt, NoFields)
    IN  IF r.ok /\ r.fields["d"] <= DaysIn(r.fields["Y"], r.fields["m"])
        THEN TimestampOf(r.fields)
        ELSE NoneV

FreeFormats ==
    << <<"%", "Y", "-", "%", "m", "-", "%", "d">>,
       <<"%", "Y", "-", "%", "m", "-", "%", "d", " ", "%", "H", ":", "%", "M", ":", "%", "S">>,
       <<"%", "Y", "/", "%", "m", "/", "%", "d">>,
       <<"%", "Y", "%", "m", "%", "d">> >>

\* the first format of the list that parses s, NoneV when none does
RECURSIVE first_format(_, _)
first_format(s, pyfmts) ==
    IF pyfmts = <<>> THEN NoneV
    ELSE IF to_datetime_format(s, Head(pyfmts)) # NoneV THEN to_datetime_format(s, Head(pyfmts))
    ELSE first_format(s, Tail(pyfmts))

\* pd.to_datetime(s, errors="raise"): NoneV stands for a raise
to_datetime_free(s) == first_format(s, FreeFormats)

RECURSIVE lstrip_signs(_)
lstrip_signs(s) == IF s # <<>> /\ Head(s) \in {"+", "-"} THEN lstrip_signs(Tail(s)) ELSE s

RECURSIVE lstrip_zeros(_)
lstrip_zeros(s) == IF Len(s) > 1 /\ Head(s) = "0" THEN lstrip_zeros(Tail(s)) ELSE s

RECURSIVE DigitsLeq(_, _)
DigitsLeq(a, b) ==
    IF a = <<>> THEN TRUE
    ELSE IF DigitVal(Head(a)) # DigitVal(Head(b)) THEN DigitVal(Head(a)) < DigitVal(Head(b))
    ELSE DigitsLeq(Tail(a), Tail(b))

\* the largest count a Timestamp holds, per unit: 2^63 - 1 nanoseconds
TsMaxNs == <<"9", "2", "2", "3", "3", "7", "2", "0", "3", "6", "8", "5", "4", "7", "7", "5", "8", "0", "7">>

\* lines 48-56: the digits of the unit, counted from the seconds
UnitWidth(digits) ==
    IF digits >= 19 THEN 19 ELSE IF digits >= 16 THEN 16 ELSE IF digits >= 13 THEN 13 ELSE 10

\* lines 43-57: NoneV stands for the exception swallowed at line 58
epoch_to_datetime(s) ==
    LET numeric == lstrip_signs(s)
        core == lstrip_zeros(IntPart(numeric))
        width == UnitWidth(Len(IntPart(numeric)))
        limit == SubSeq(TsMaxNs, 1, width)
    IN  IF Len(s) - Len(numeric) > 1 THEN NoneV
        ELSE IF Len(core) < width \/ (Len(core) = width /\ DigitsLeq(core, limit))
        THEN TsEpoch(SubSeq(s, 1, Len(s) - Len(numeric)) \o core
                        \o (IF PointAt(numeric) = 0 THEN <<>>
                            ELSE <<".">> \o FracPart(numeric)), width)
        ELSE NoneV

_try_parse_date(txt, fmts) ==
    LET s == strip(txt)
        numeric == lstrip_signs(s)
        epoch_like == /\ numeric # <<>>
                      /\ isdigit(IntPart(numeric) \o FracPart(numeric))
                      /\ Len(IntPart(numeric)) >= 10
        by_format == first_format(s, [j \in 1..Len(fmts) |-> _java_dt_to_py(fmts[j])])
    IN  IF s = <<>> THEN NoneV
        ELSE IF epoch_like /\ epoch_to_datetime(s) # NoneV THEN epoch_to_datetime(s)
        ELSE IF by_format # NoneV THEN by_format
        ELSE to_datetime_free(s)

(***************************************************************************)
(* _dict_lookup_value, lines 89-120.  A lookup table is a function from    *)
(* key values to values; the registry maps table names to tables.  A call  *)
(* yields [raised, ret]: raised when Python raises out of it.              *)
(***************************************************************************)
Returns(v) == [raised |-> FALSE, ret |-> v]
Raises == [raised |-> TRUE, ret |-> NoneV]

\* lists and dicts cannot be members of a set or keys of a dict
Unhashable(x) == x.t \in {"list", "dict"}

\* 1 == 1.0 and hash(1) == hash(1.0): equal numbers are one key
HashKey(x) == IF x.t = "float" /\ x.e = 0 THEN IntV(x.n) ELSE x

\* candidate in table
InTable(table, candidate) == \E k \in DOMAIN table : HashKey(k) = HashKey(candidate)

\* table[candidate]
TableAt(table, candidate) ==
    table[CHOOSE k \in DOMAIN table : HashKey(k) = HashKey(candidate)]

\* a candidate list that forgets the integer-parsed and the string forms
lookup_candidates_raw_only(key) ==
    IF key.t = "str"
    THEN <<key>> \o (IF strip(key.s) # key.s THEN <<Str(strip(key.s))>> ELSE <<>>)
    ELSE <<key>>

\* lines 101-115
lookup_candidates(key) ==
    IF key.t = "str"
    THEN <<key>>
         \o (IF strip(key.s) # key.s THEN <<Str(strip(key.s))>> ELSE <<>>)
         \o (IF strip(key.s) # <<>> /\ IsIntText(strip(key.s))
             THEN <<IntV(IntOf(strip(key.s)))>> ELSE <<>>)
    ELSE <<key, Str(py_str(key))>>

\* lines 117-120
RECURSIVE first_hit(_, _)
first_hit(table, candidates) ==
    IF candidates = <<>> THEN NoneV
    ELSE IF InTable(table, Head(candidates)) THEN TableAt(table, Head(candidates))
    ELSE first_hit(table, Tail(candidates))

_dict_lookup_value(table, key) ==
    IF table = EmptyDict THEN Returns(NoneV)
    ELSE IF Unhashable(key) THEN Raises
    ELSE Returns(first_hit(table, lookup_candidates(key)))

(***************************************************************************)
(* Transform steps.  A step yields [raised, out].  A params object is a    *)
(* dict (a function from parameter names), or a value: None, a string.     *)
(***************************************************************************)
Out(values) == [raised |-> FALSE, out |-> values]
Raised == [raised |-> TRUE, out |-> <<>>]

IsDictParams(params) == "t" \notin DOMAIN params

\* lines 125-126
tf_trim(values) ==
    [j \in 1..Len(values) |->
        IF values[j] # NoneV THEN Str(strip(_to_str(values[j]))) ELSE NoneV]

RECURSIVE Flatten(_)
Flatten(seqs) == IF seqs = <<>> THEN <<>> ELSE Head(seqs) \o Flatten(Tail(seqs))

\* json.dumps(x, sort_keys=True) of two dicts agree, or two other keys are equal
SameKey(x, y) ==
    IF x.t = "dict" /\ y.t = "dict"
    THEN /\ {x.fields[j].k : j \in 1..Len(x.fields)} = {y.fields[j].k : j \in 1..Len(y.fields)}
         /\ \A j \in 1..Len(x.fields) : DictGet(y, x.fields[j].k) = x.fields[j].v
    ELSE x.t # "dict" /\ y.t # "dict" /\ HashKey(x) = HashKey(y)

\* lines 160-169: the first occurrence of every key is kept
RECURSIVE DedupKeys(_, _)
DedupKeys(seq, seen) ==
    IF seq = <<>> THEN <<>>
    ELSE IF \E j \in 1..Len(seen) : SameKey(seen[j], Head(seq))
    THEN DedupKeys(Tail(seq), seen)
    ELSE <<Head(seq)>> \o DedupKeys(Tail(seq), Append(seen, Head(seq)))

\* lines 154-159
form_pick_item(item, field, field_pairs) ==
    IF field_pairs # <<>> /\ item.t = "dict"
    THEN DictV([k \in 1..Len(field_pairs) |->
                  [k |-> field_pairs[k], v |-> DictGet(item, field_pairs[k])]])
    ELSE IF field # <<>> /\ item.t = "dict" THEN DictGet(item, field)
    ELSE item

\* lines 146-170
tf_form_pick(values, params) ==
    LET field == Get(params, "field", <<>>)
        field_pairs == Get(params, "field_pairs", <<>>)
        unique == Get(params, "unique", TRUE)
        items == Flatten([j \in 1..Len(values) |->
                    IF values[j].t = "list" THEN values[j].items ELSE <<values[j]>>])
        res == [j \in 1..Len(items) |-> form_pick_item(items[j], field, field_pairs)]
    IN  IF ~unique THEN Out(res)
        ELSE IF \E j \in 1..Len(res) : res[j].t = "list" THEN Raised
        ELSE Out(DedupKeys(res, <<>>))

(***************************************************************************)
(* str.format with named fields: "{{" and "}}" are braces, "{name}" is the *)
(* keyword argument; a lone brace or a name without an argument raises.    *)
(* Field names with a conversion, a format spec, an attribute or an index  *)
(* do not occur in the templates of the model.                             *)
(***************************************************************************)
CloseAt(tpl) == IF \E j \in 1..Len(tpl) : tpl[j] = "}"
                THEN CHOOSE j \in 1..Len(tpl) : tpl[j] = "}" /\ \A i \in 1..(j - 1) : tpl[i] # "}"
                ELSE 0

Prefixed(text, r) == [ok |-> r.ok, s |-> text \o r.s]

RECURSIVE format(_, _)
format(tpl, kw) ==
    IF tpl = <<>> THEN [ok |-> TRUE, s |-> <<>>]
    ELSE IF StartsWith(tpl, <<"{", "{">>)
    THEN Prefixed(<<"{">>, format(SubSeq(tpl, 3, Len(tpl)), kw))
    ELSE IF StartsWith(tpl, <<"}", "}">>)
    THEN Prefixed(<<"}">>, format(SubSeq(tpl, 3, Len(tpl)), kw))
    ELSE IF Head(tpl) = "}" THEN [ok |-> FALSE, s |-> <<>>]
    ELSE IF Head(tpl) = "{"
    THEN IF CloseAt(tpl) = 0 \/ SubSeq(tpl, 2, CloseAt(tpl) - 1) \notin DOMAIN kw
         THEN [ok |-> FALSE, s |-> <<>>]
         ELSE Prefixed(kw[SubSeq(tpl, 2, CloseAt(tpl) - 1)],
                       format(SubSeq(tpl, CloseAt(tpl) + 1, Len(tpl)), kw))
    ELSE Prefixed(<<Head(tpl)>>, format(Tail(tpl), kw))

\* lines 176-186
format_one(tpl, v) ==
    LET kw == IF v.t = "dict"
              THEN [k \in {v.fields[j].k : j \in 1..Len(v.fields)} |-> _to_str(DictGet(v, k))]
              ELSE [k \in {<<"x">>} |-> _to_str(v)]
    IN  IF format(tpl, kw).ok THEN Str(format(tpl, kw).s)
        ELSE IF v.t = "dict" THEN Str(py_str(v))
        ELSE Str(_to_str(v))

\* lines 173-187
tf_format_each(values, params) ==
    LET tpl == Get(params, "template", <<"{", "x", "}">>)
    IN  [j \in 1..Len(values) |-> format_one(tpl, values[j])]

\* lines 199-207
RECURSIVE Dedup(_, _)
Dedup(seq, seen) ==
    IF seq = <<>> THEN <<>>
    ELSE IF Head(seq) \in seen THEN Dedup(Tail(seq), seen)
    ELSE <<Head(seq)>> \o Dedup(Tail(seq), seen \cup {Head(seq)})

RECURSIVE JoinStr(_, _)
JoinStr(sep, parts) ==
    IF parts = <<>> THEN <<>>
    ELSE IF Len(parts) = 1 THEN parts[1]
    ELSE parts[1] \o sep \o JoinStr(sep, Tail(parts))

\* a join that keeps the empty strings
join_all(sep, flat) == JoinStr(sep, flat)

\* line 208: sep.join([s for s in flat if s != ""])
join_nonempty(sep, flat) == JoinStr(sep, SelectSeq(flat, LAMBDA s : s # <<>>))

\* lines 190-208
tf_join_agg(values, params) ==
    LET sep == Get(params, "sep", <<",", " ">>)
        unique == Get(params, "unique", TRUE)
        flat0 == Flatten([j \in 1..Len(values) |->
                    IF values[j].t = "list"
                    THEN [i \in 1..Len(values[j].items) |-> _to_str(values[j].items[i])]
                    ELSE <<_to_str(values[j])>>])
        flat == IF unique THEN Dedup(flat0, {}) ELSE flat0
    IN  << Str(IF flat # <<>> THEN join_nonempty(sep, flat) ELSE <<>>) >>

\* lines 211-214
tf_number_parse(values, params) ==
    [j \in 1..Len(values) |->
        _number_parse(values[j], Get(params, "thousands", <<",">>), Get(params, "decimal", <<".">>))]

\* lines 228-234
tf_date_parse(values, params) ==
    [j \in 1..Len(values) |->
        _try_parse_date(_to_str(values[j]), Get(params, "input_formats", <<>>))]

\* a dict step that never falls back to the original value
tf_dict_lookup_default_only(values, params) ==
    LET is_str == ~IsDictParams(params) /\ params.t = "str"
        table_name == IF is_str THEN params.s ELSE Get(params, "table", <<>>)
        default == IF is_str THEN Str(<<>>) ELSE Get(params, "default", Str(<<>>))
        table == Get(LOOKUP_TABLES, table_name, EmptyDict)
        mapped == [j \in 1..Len(values) |-> _dict_lookup_value(table, values[j])]
    IN  IF ~IsDictParams(params) /\ params.t # "str" THEN Out(values)
        ELSE IF table_name = <<>> THEN Out(values)
        ELSE IF \E j \in 1..Len(values) : mapped[j].raised THEN Raised
        ELSE Out([j \in 1..Len(values) |->
                    IF mapped[j].ret # NoneV THEN mapped[j].ret ELSE default])

\* lines 304-329; LOOKUP_TABLES is the module's global registry
tf_dict_lookup(values, params) ==
    LET is_str == ~IsDictParams(params) /\ params.t = "str"
        table_name == IF is_str THEN params.s ELSE Get(params, "table", <<>>)
        default == IF is_str THEN Str(<<>>) ELSE Get(params, "default", Str(<<>>))
        keep_original == IF is_str THEN TRUE ELSE Get(params, "keep_original", TRUE)
        table == Get(LOOKUP_TABLES, table_name, EmptyDict)
        mapped == [j \in 1..Len(values) |-> _dict_lookup_value(table, values[j])]
    IN  IF ~IsDictParams(params) /\ params.t # "str" THEN Out(values)
        ELSE IF table_name = <<>> THEN Out(values)
        ELSE IF \E j \in 1..Len(values) : mapped[j].raised THEN Raised
        ELSE Out([j \in 1..Len(values) |->
                    IF mapped[j].ret # NoneV THEN mapped[j].ret
                    ELSE IF keep_original /\ values[j] \notin {NoneV, Str(<<>>)} THEN values[j]
                    ELSE default])

\* lines 332-346: the registry entries the model covers; json_parse, round,
\* date_format, to_value_label and json_stringify are not used by its chains
TRANSFORMS ==
    {"trim", "form_pick", "form_picker_names", "format_each", "join_agg",
     "number_parse", "date_parse", "dict"}

\* line 363, fn(out, params): a step function that reads params.get raises
\* when params is not a dict
call_transform(name, values, params) ==
    CASE name = "trim" -> Out(tf_trim(values))
      [] name = "dict" -> tf_dict_lookup(values, params)
      [] name = "form_picker_names" ->
            IF ~IsDictParams(params) /\ (params.t = "none" \/ (params.t = "str" /\ params.s = <<>>))
            THEN tf_form_pick(values, [field |-> <<"n", "a", "m", "e">>])
            ELSE IF ~IsDictParams(params) THEN Raised
            ELSE tf_form_pick(values, params @@ [field |-> <<"n", "a", "m", "e">>])
      [] ~IsDictParams(params) -> Raised
      [] name = "form_pick" -> tf_form_pick(values, params)
      [] name = "format_each" -> Out(tf_format_each(values, params))
      [] name = "join_agg" -> Out(tf_join_agg(values, params))
      [] name = "number_parse" -> Out(tf_number_parse(values, params))
      [] OTHER -> Out(tf_date_parse(values, params))

\* lines 352-363: a step is a bare name, a one-key dict of the name and its
\* params, an empty dict (next(iter(step)) raises) or another object (skipped)
apply_step(step, values) ==
    IF "name" \notin DOMAIN step
    THEN (IF step.other = "empty_dict" THEN Raised ELSE Out(values))
    ELSE IF step.name \notin TRANSFORMS THEN Out(values)
    ELSE call_transform(step.name, values, Get(step, "params", EmptyDict))

RECURSIVE apply_chain(_, _)

\* line 363, out = fn(out, params): an exception leaves the loop, else the
\* steps that remain take the step's output
remaining_steps(r, chain) == IF r.raised THEN Raised ELSE apply_chain(r.out, chain)

\* a chain that ends at the first step that is not in the registry
apply_chain_stop_at_unknown(values, chain) ==
    IF chain = <<>> THEN Out(values)
    ELSE IF "name" \in DOMAIN Head(chain) /\ Head(chain).name \notin TRANSFORMS THEN Out(values)
    ELSE remaining_steps(apply_step(Head(chain), values), Tail(chain))

\* lines 349-364
apply_chain(values, chain) ==
    IF chain = <<>> THEN Out(values)
    ELSE remaining_steps(apply_step(Head(chain), values), Tail(chain))

(***************************************************************************)
(* Worksheets: a partial function from <<row, column>> to the cell value.  *)
(* A cell object may exist holding no value (NoneV).                       *)
(***************************************************************************)
max_row(ws) == IF DOMAIN ws = {} THEN 1 ELSE Max({p[1] : p \in DOMAIN ws})
max_column(ws) == IF DOMAIN ws = {} THEN 1 ELSE Max({p[2] : p \in DOMAIN ws})

CellValue(ws, r, c) == IF <<r, c>> \in DOMAIN ws THEN ws[<<r, c>>] ELSE NoneV

\* ws.cell(row, column, value): the cell object is created; None sets nothing
cell(ws, r, c, v) ==
    IF v = NoneV
    THEN (IF <<r, c>> \in DOMAIN ws THEN ws ELSE (<<r, c>> :> NoneV) @@ ws)
    ELSE (<<r, c>> :> v) @@ ws

\* ws[1]: materialises the cells of row 1, columns 1..max_column
Row1(ws) ==
    [p \in DOMAIN ws \cup {<<1, j>> : j \in 1..max_column(ws)} |-> CellValue(ws, p[1], p[2])]

\* a header_index that forgets .strip()
HeaderText_unstripped(ws, j) == _to_str(CellValue(ws, 1, j))

HeaderText(ws, j) == strip(_to_str(CellValue(ws, 1, j)))

\* header text -> column index; a later column replaces an earlier one
header_index(ws) ==
    [k \in {HeaderText(ws, j) : j \in 1..max_column(ws)} |->
        Max({j \in 1..max_column(ws) : HeaderText(ws, j) = k})]

(***************************************************************************)
(* Source tables (DataFrames): the column set, the row labels (the index)  *)
(* and the rows, each a function from column name to string.               *)
(***************************************************************************)
\* df[mask]: the rows whose mask entry is true, with their labels
SelectRows(tbl, mask) ==
    LET pos == SelectSeq([j \in 1..Len(tbl.rows) |-> j], LAMBDA j : mask[j])
    IN  [columns |-> tbl.columns,
         index |-> [k \in 1..Len(pos) |-> tbl.index[pos[k]]],
         rows |-> [k \in 1..Len(pos) |-> tbl.rows[pos[k]]]]

\* df.groupby(join_key): join-key value -> the rows holding it, in table order
groupby(tbl, jk) ==
    [v \in {tbl.rows[j][jk] : j \in 1..Len(tbl.rows)} |->
        SelectRows(tbl, [j \in 1..Len(tbl.rows) |-> tbl.rows[j][jk] = v])]

NoSource == ""

\* a boolean Series over labels 0..len-1 indexes a frame only when every
\* row label of the frame is among them (pandas raises IndexingError otherwise)
Unalignable(tbl) ==
    \E j \in 1..Len(tbl.index) : tbl.index[j] >= Len(tbl.rows)

get_values_from_source(dfm, base_row, frm, where, jk, grps) ==
    LET sheet == frm.sheet
        col == frm.column
        join_val == Get(base_row.cells, jk, <<>>)
        base_df == dfm[sheet]
        grouped == grps # EmptyDict /\ sheet \in DOMAIN grps
        q0 == IF grouped
              THEN (IF join_val \in DOMAIN grps[sheet]
                    THEN grps[sheet][join_val]
                    ELSE SelectRows(base_df, [j \in 1..Len(base_df.rows) |-> FALSE]))
              ELSE SelectRows(base_df, [j \in 1..Len(base_df.rows) |->
                                           Get(base_df.rows[j], jk, <<>>) = join_val])
        q == IF where # EmptyDict
             THEN SelectRows(q0, [j \in 1..Len(q0.rows) |->
                      \A k \in DOMAIN where \cap q0.columns : q0.rows[j][k] = where[k]])
             ELSE q0
    IN  IF sheet \notin DOMAIN dfm THEN [raised |-> FALSE, vals |-> <<>>]
        ELSE IF sheet = base_row.base_sheet
        THEN [raised |-> FALSE, vals |-> << Str(Get(base_row.cells, col, <<>>)) >>]
        ELSE IF ~grouped /\ jk \notin base_df.columns /\ Unalignable(base_df)
        THEN [raised |-> TRUE, vals |-> <<>>]
        ELSE [raised |-> FALSE,
              vals |-> IF col \in q.columns
                       THEN [j \in 1..Len(q.rows) |-> Str(q.rows[j][col])]
                       ELSE <<>>]

(***************************************************************************)
(* Resolution of one column mapping for one base row.                      *)
(***************************************************************************)
\* a resolver that takes the last value of the chain's result
final_last_value(vals, mp) ==
    IF vals # <<>> THEN vals[Len(vals)] ELSE Get(mp, "default", Str(<<>>))

\* line 432: final = vals[0] if vals else mp.get("default", "")
final_one_to_one(vals, mp) ==
    IF vals # <<>> THEN vals[1] ELSE Get(mp, "default", Str(<<>>))

\* line 472: final = vals[0] if vals else (mp.get("default", ""))
final_simple_append(vals, mp) ==
    IF vals # <<>> THEN vals[1] ELSE Get(mp, "default", Str(<<>>))

\* line 432: the record of one resolution, chained the outcome of the chain
resolved_one_to_one(cand, mp, chained) ==
    [raised |-> chained.raised,
     cand |-> cand,
     chain_out |-> chained.out,
     final |-> final_one_to_one(chained.out, mp)]

\* lines 431-432
resolve_values(cand, mp) ==
    resolved_one_to_one(cand, mp, apply_chain(cand, Get(mp, "transform", <<>>)))

\* a candidate list that takes the source references last to first
candidates_reversed(parts) ==
    Flatten([j \in 1..Len(parts) |-> parts[Len(parts) + 1 - j].vals])

\* lines 425-430: vals.extend(...) for each source reference in turn
candidates(parts) == Flatten([j \in 1..Len(parts) |-> parts[j].vals])

\* a raise in a source reference (line 429) or in the chain (line 431)
raised_in(r, flag) == [r EXCEPT !.raised = r.raised \/ flag]

\* lines 425-432, parts what the source references gave
resolve_parts(mp, parts) ==
    raised_in(resolve_values(candidates(parts), mp),
              \E j \in 1..Len(parts) : parts[j].raised)

\* lines 422-432
resolve_one_to_one(mp, dfm, base, jk, grps) ==
    resolve_parts(mp, [j \in 1..Len(Get(mp, "from", <<>>)) |->
                         get_values_from_source(dfm, base, Get(mp, "from", <<>>)[j],
                                                Get(mp, "where", EmptyDict), jk, grps)])

\* line 472: the record of one resolution, chained the outcome of the chain
resolved_simple_append(cand, mp, chained) ==
    [raised |-> chained.raised,
     cand |-> cand,
     chain_out |-> chained.out,
     final |-> final_simple_append(chained.out, mp)]

\* lines 471-472
resolve_append_values(cand, mp) ==
    resolved_simple_append(cand, mp, apply_chain(cand, Get(mp, "transform", <<>>)))

\* lines 463-472
resolve_simple_append(mp, base, src_name) ==
    resolve_append_values(
        candidates([j \in 1..Len(Get(mp, "from", <<>>)) |->
            [vals |-> IF Get(mp, "from", <<>>)[j].sheet = src_name
                      THEN << Str(Get(base.cells, Get(mp, "from", <<>>)[j].column, <<>>)) >>
                      ELSE <<>>]]),
        mp)

\* row_out[to_col] = final: a later mapping to the same column replaces an earlier one
row_out(mps, res) ==
    [k \in {mps[j].to.column : j \in 1..Len(mps)} |->
        res[Max({j \in 1..Len(mps) : mps[j].to.column = k})].final]

\* for k, v in row.items(): if k in hdr: ws.cell(row=i, column=hdr[k], value=v)
RECURSIVE write_keys(_, _, _, _, _)
write_keys(ws, hdr, r, row, ks) ==
    IF ks = {} THEN ws
    ELSE LET k == CHOOSE x \in ks : TRUE
         IN  write_keys(cell(ws, r, hdr[k], row[k]), hdr, r, row, ks \ {k})

write_row(ws, hdr, r, row) == write_keys(ws, hdr, r, row, DOMAIN row \cap DOMAIN hdr)

\* an append position that is off by one: the last populated row itself
start_row_at_last(ws) == IF max_row(ws) >= 1 THEN max_row(ws) ELSE 2

\* the row index the first output row goes to (lines 438 and 456)
start_row_of(ws) == IF max_row(ws) >= 1 THEN max_row(ws) + 1 ELSE 2

\* a writer that emits the output rows last to first
RECURSIVE write_rows_reversed(_, _, _, _)
write_rows_reversed(ws, hdr, start, rows) ==
    IF rows = <<>> THEN ws
    ELSE write_rows_reversed(write_row(ws, hdr, start, rows[Len(rows)]), hdr, start + 1,
                             SubSeq(rows, 1, Len(rows) - 1))

RECURSIVE write_rows(_, _, _, _)
write_rows(ws, hdr, start, rows) ==
    IF rows = <<>> THEN ws
    ELSE write_rows(write_row(ws, hdr, start, Head(rows)), hdr, start + 1, Tail(rows))

(***************************************************************************)
(* process_one_to_one and process_simple_append.  Each yields the record   *)
(* of one call: whether it raised, the sheet after it, and its locals.     *)
(***************************************************************************)
CallResult(raised, ws, base, start, res, rows) ==
    [raised |-> raised, ws |-> ws, base |-> base, start |-> start,
     count |-> Len(rows), res |-> res, rows |-> rows]

\* a base-table choice that prefers the declared source over details
base_sheet_declared_first(ts, dfm) ==
    IF "source" \in DOMAIN ts /\ ts.source \in DOMAIN dfm THEN ts.source
    ELSE IF "details" \in DOMAIN dfm THEN "details" ELSE NoSource

\* line 413
base_sheet_of(ts, dfm) ==
    IF "details" \in DOMAIN dfm THEN "details" ELSE Get(ts, "source", NoSource)

\* a row loop that stops one row early
iterrows_drop_last(df) == SubSeq(df.rows, 1, Len(df.rows) - 1)

\* line 417 / 458: the rows of the base table, in table order
iterrows(df) == df.rows

\* lines 417-433: every mapping of every base row
resolve_rows(mps, rws, dfm, base_sheet, jk, grps) ==
    [i \in 1..Len(rws) |-> [j \in 1..Len(mps) |->
        resolve_one_to_one(mps[j], dfm, [cells |-> rws[i], base_sheet |-> base_sheet],
                           jk, grps)]]

\* lines 437-444: nothing is written when a row raised, the rows are
\* written after the loop
write_one_to_one(ws, hdr, base_sheet, start, res, out_rows) ==
    IF \E i \in 1..Len(res) : \E j \in 1..Len(res[i]) : res[i][j].raised
    THEN CallResult(TRUE, ws, base_sheet, 0, <<>>, <<>>)
    ELSE CallResult(FALSE, write_rows(ws, hdr, start, out_rows),
                    base_sheet, start, res, out_rows)

\* lines 433-434: out_rows.append(row_out)
rows_one_to_one(ws, base_sheet, mps, res) ==
    write_one_to_one(ws, header_index(ws), base_sheet, start_row_of(ws), res,
                     [i \in 1..Len(res) |-> row_out(mps, res[i])])

process_one_to_one(ts, dfm, w, jk, grps) ==
    LET ws == Row1(w[ts.name])
        base_sheet == base_sheet_of(ts, dfm)
        mps == Get(ts, "mappings", <<>>)
    IN  IF base_sheet \notin DOMAIN dfm
        THEN CallResult(TRUE, ws, base_sheet, 0, <<>>, <<>>)
        ELSE rows_one_to_one(ws, base_sheet, mps,
                             resolve_rows(mps, iterrows(dfm[base_sheet]), dfm, base_sheet,
                                          jk, grps))

\* line 452
source_missing(src_name, dfm) == src_name = NoSource \/ src_name \notin DOMAIN dfm

\* a missing source table treated as an error instead of a skip
raise_missing_source(ws, src_name) == CallResult(TRUE, ws, src_name, 0, <<>>, <<>>)

\* lines 452-454: return 0
skip_missing_source(ws, src_name) == CallResult(FALSE, ws, src_name, 0, <<>>, <<>>)

\* lines 458-472: every mapping of every source row
resolve_append_rows(mps, rws, src_name) ==
    [i \in 1..Len(rws) |-> [j \in 1..Len(mps) |->
        resolve_simple_append(mps[j], [cells |-> rws[i], base_sheet |-> src_name], src_name)]]

\* the row whose resolution raises is the first one with a raising mapping
RowRaises(res, i) == \E j \in 1..Len(res[i]) : res[i][j].raised

\* lines 474-479: each row is written as soon as it is resolved, so the rows
\* before a raising row are in the sheet
write_simple_append(ws, hdr, src_name, start, res, out_rows) ==
    IF \E i \in 1..Len(res) : RowRaises(res, i)
    THEN LET i0 == CHOOSE i \in 1..Len(res) :
                      RowRaises(res, i) /\ \A h \in 1..(i - 1) : ~RowRaises(res, h)
         IN  CallResult(TRUE, write_rows(ws, hdr, start, SubSeq(out_rows, 1, i0 - 1)),
                        src_name, start, <<>>, <<>>)
    ELSE CallResult(FALSE, write_rows(ws, hdr, start, out_rows),
                    src_name, start, res, out_rows)

\* line 473: row_out[to_col] = final
rows_simple_append(ws, src_name, mps, res) ==
    write_simple_append(ws, header_index(ws), src_name, start_row_of(ws), res,
                        [i \in 1..Len(res) |-> row_out(mps, res[i])])

process_simple_append(ts, dfm, w) ==
    LET ws == Row1(w[ts.name])
        src_name == Get(ts, "source", NoSource)
    IN  IF source_missing(src_name, dfm) THEN skip_missing_source(ws, src_name)
        ELSE IF iterrows(dfm[src_name]) # <<>> /\ "mappings" \notin DOMAIN ts
        THEN CallResult(TRUE, ws, src_name, start_row_of(ws), <<>>, <<>>)
        ELSE IF iterrows(dfm[src_name]) = <<>>
        THEN CallResult(FALSE, ws, src_name, start_row_of(ws), <<>>, <<>>)
        ELSE rows_simple_append(ws, src_name, ts.mappings,
                                resolve_append_rows(ts.mappings, iterrows(dfm[src_name]),
                                                    src_name))

(***************************************************************************)
(* run(): lines 521-544, the pre-pass over every target sheet spec.        *)
(***************************************************************************)
SpecMappings(ts) == Get(ts, "mappings", <<>>)

used_sheets_of(tss) ==
    {f.sheet : f \in UNION {UNION {{Get(mp, "from", <<>>)[k] : k \in 1..Len(Get(mp, "from", <<>>))} :
                 mp \in {SpecMappings(tss[i])[j] : j \in 1..Len(SpecMappings(tss[i]))}} :
                 i \in 1..Len(tss)}} \ {NoSource}

form_attr_names_of(tss) ==
    {Get(mp, "where", EmptyDict).attribute_name :
        mp \in {m \in UNION {{SpecMappings(tss[i])[j] : j \in 1..Len(SpecMappings(tss[i]))} :
                               i \in 1..Len(tss)} :
                  /\ \E k \in 1..Len(Get(m, "from", <<>>)) : Get(m, "from", <<>>)[k].sheet = "form"
                  /\ "attribute_name" \in DOMAIN Get(m, "where", EmptyDict)
                  /\ Get(m, "where", EmptyDict).attribute_name # <<>>}}

\* lines 536-537
filter_form(dfm, names) ==
    IF "form" \in DOMAIN dfm /\ names # {} /\ "attribute_name" \in dfm["form"].columns
    THEN [s \in DOMAIN dfm |->
            IF s = "form"
            THEN SelectRows(dfm[s], [j \in 1..Len(dfm[s].rows) |->
                                        dfm[s].rows[j]["attribute_name"] \in names])
            ELSE dfm[s]]
    ELSE dfm

\* lines 538-544
build_groups(dfm, used, jk) ==
    [s \in {u \in used \cap DOMAIN dfm : jk \in dfm[u].columns} |-> groupby(dfm[s], jk)]

(***************************************************************************)
(* run(): lines 487-515, the lookup registry.  An external dictionary      *)
(* workbook is a sequence of sheets, each a name and a table.              *)
(***************************************************************************)
NoTable == [columns |-> {}, index |-> <<>>, rows |-> <<>>]

\* line 499, pd.read_excel(path, sheet_name=(sheet if sheet else 0)): ok is
\* false when the read raises (no such file, no such sheet)
read_dict_sheet(files, path, sheet) ==
    IF path \notin DOMAIN files THEN [ok |-> FALSE, table |-> NoTable]
    ELSE IF sheet = NoSource THEN [ok |-> TRUE, table |-> files[path][1].table]
    ELSE IF \E j \in 1..Len(files[path]) : files[path][j].name = sheet
    THEN [ok |-> TRUE,
          table |-> files[path][CHOOSE j \in 1..Len(files[path]) : files[path][j].name = sheet].table]
    ELSE [ok |-> FALSE, table |-> NoTable]

\* lines 506-511: keys and values stripped, blank keys skipped, a later row
\* replaces an earlier row of the same key
dict_table_of(df, key_col, val_col) ==
    LET idx == {j \in 1..Len(df.rows) : strip(Get(df.rows[j], key_col, <<>>)) # <<>>}
    IN  [k \in {Str(strip(df.rows[j][key_col])) : j \in idx} |->
            Str(strip(Get(df.rows[Max({j \in idx : Str(strip(df.rows[j][key_col])) = k})],
                          val_col, <<>>)))]

\* lines 490-515: the registry after one source
load_dict_source(registry, ds, files) ==
    LET name == Get(ds, "name", <<>>)
        path == Get(ds, "path", NoSource)
        key_col == Get(ds, "key_column", NoSource)
        val_col == Get(ds, "value_column", NoSource)
        df == read_dict_sheet(files, path, Get(ds, "sheet", NoSource))
    IN  IF name = <<>> \/ path = NoSource \/ key_col = NoSource \/ val_col = NoSource
        THEN registry
        ELSE IF ~df.ok THEN registry
        ELSE (name :> dict_table_of(df.table, key_col, val_col)) @@ registry

\* line 489: the sources in declared order
RECURSIVE load_dict_sources(_, _, _)
load_dict_sources(registry, dss, files) ==
    IF dss = <<>> THEN registry
    ELSE load_dict_sources(load_dict_source(registry, Head(dss), files), Tail(dss), files)

\* lines 488-515
load_lookup_tables(mp, files) ==
    load_dict_sources(Get(mp, "dict", EmptyDict), Get(mp, "dict_sources", <<>>), files)

(***************************************************************************)
(* The inputs run() is given: source workbooks, templates, mappings.       *)
(***************************************************************************)
Digit(i) == <<"1", "2", "3", "4", "5", "6", "7", "8", "9">>[i]

\* the second details row has a blank join-key cell
DetailsRow(i) ==
    [contract_number |-> IF i = 1 THEN <<"k", "1">>
                         ELSE IF i = 2 THEN <<>> ELSE <<"k", Digit(i - 1)>>,
     amount |-> <<" ", "a", Digit(i)>>]

FormRow(i) ==
    [contract_number |-> <<"k", Digit((i + 1) \div 2)>>,
     attribute_name |-> IF i % 2 = 1 THEN <<"A">> ELSE <<"B">>,
     value |-> <<"f", Digit(i)>>]

PaymentsRow(i) ==
    [contract_number |-> <<"k", Digit((i + 1) \div 2)>>, amount |-> <<"p", Digit(i)>>]

\* a reference table without the join-key column
RatesRow(i) == [code |-> <<"c", Digit(i)>>, rate |-> <<"r", Digit(i)>>]

\* read_excel_all: every sheet a table of strings, rows labelled 0..n-1
SheetTable(name, n) ==
    [columns |-> IF name = "form"
                 THEN {"contract_number", "attribute_name", "value"}
                 ELSE IF name = "rates" THEN {"code", "rate"}
                 ELSE {"contract_number", "amount"},
     index |-> [j \in 1..n |-> j - 1],
     rows |-> [j \in 1..n |->
                 IF name = "details" THEN DetailsRow(j)
                 ELSE IF name = "form" THEN FormRow(j)
                 ELSE IF name = "rates" THEN RatesRow(j)
                 ELSE PaymentsRow(j)]]

SourceBooks ==
    {[s \in present |-> SheetTable(s, n)] :
        present \in ((SUBSET {"details", "form", "payments"}) \ {{}}) \cup {{"details", "rates"}},
        n \in 0..MaxRows}

ColA == <<"A">>
ColN == <<"N">>
ColZ == <<"Z">>

TemplateBooks ==
    { \* a header row, one header padded with blanks; no sheet Out2
      [s \in {"Out"} |-> (<<1, 1>> :> Str(ColA)) @@ (<<1, 2>> :> Str(<<" ", "N", " ">>))],
      \* rows below the header, the last one an empty formatted cell; a repeated header
      [s \in {"Out", "Out2"} |->
          IF s = "Out"
          THEN (<<1, 1>> :> Str(ColA)) @@ (<<1, 2>> :> Str(ColN))
               @@ (<<2, 1>> :> Str(<<"o">>)) @@ (<<3, 2>> :> NoneV)
          ELSE (<<1, 1>> :> Str(ColA)) @@ (<<1, 2>> :> Str(ColA))],
      \* a sheet without any cell
      [s \in {"Out", "Out2"} |->
          IF s = "Out" THEN EmptyDict ELSE (<<1, 1>> :> Str(ColN))] }

MapAmount ==
    [to |-> [column |-> ColA],
     from |-> <<[sheet |-> "details", column |-> "amount"]>>,
     transform |-> <<[name |-> "trim"]>>]

MapFormB ==
    [to |-> [column |-> ColN],
     from |-> <<[sheet |-> "form", column |-> "value"]>>,
     where |-> [attribute_name |-> <<"B">>],
     default |-> Str(<<"-">>)]

MapFormA ==
    [to |-> [column |-> ColN],
     from |-> <<[sheet |-> "form", column |-> "value"]>>,
     where |-> [attribute_name |-> <<"A">>],
     transform |-> <<[name |-> "join_agg", params |-> [unique |-> FALSE]]>>]

MapFormAll ==
    [to |-> [column |-> ColN],
     from |-> <<[sheet |-> "form", column |-> "value"],
                [sheet |-> "details", column |-> "amount"]>>,
     transform |-> <<[name |-> "upper"]>>]

MapPay ==
    [to |-> [column |-> ColA],
     from |-> <<[sheet |-> "payments", column |-> "amount"]>>,
     where |-> [attribute_name |-> <<"A">>],
     default |-> NoneV]

MapRates ==
    [to |-> [column |-> ColN],
     from |-> <<[sheet |-> "rates", column |-> "rate"]>>]

MapPayKey ==
    [to |-> [column |-> ColA],
     from |-> <<[sheet |-> "payments", column |-> "contract_number"]>>]

MapConst == [to |-> [column |-> ColZ], default |-> Str(<<"d">>)]

TargetSpecs ==
    { [name |-> "Out", row_policy |-> "one_to_one",
       mappings |-> <<MapAmount, MapFormB, MapConst>>],
      [name |-> "Out", row_policy |-> "one_to_many_append", source |-> "payments",
       mappings |-> <<MapPay, MapConst, MapPayKey>>],
      [name |-> "Gone", row_policy |-> "one_to_one", source |-> "details",
       mappings |-> <<MapFormA>>],
      [name |-> "Out", row_policy |-> "one_to_many_append", source |-> "form",
       mappings |-> <<[to |-> [column |-> ColN],
                       from |-> <<[sheet |-> "form", column |-> "value"]>>],
                      MapAmount>>],
      [name |-> "Out2", source |-> "payments",
       mappings |-> <<MapPay, MapFormAll, MapRates>>],
      [name |-> "Out", row_policy |-> "one_to_many_append",
       mappings |-> <<MapPay>>],
      [name |-> "Out2", row_policy |-> "one_to_many_append", source |-> "payments"],
      [name |-> "Out", row_policy |-> "one_to_many_append", source |-> "form",
       mappings |-> <<MapFormA>>] }

SeqsUpTo(S, n) == UNION {[1..k -> S] : k \in 1..n}

\* a mapping without a join key is a one-spec mapping
Mappings ==
    {[join_keys |-> <<"contract_number">>, target_sheets |-> tss] :
        tss \in SeqsUpTo(TargetSpecs, MaxSpecs)}
    \cup {[join_keys |-> <<>>, target_sheets |-> tss] : tss \in SeqsUpTo(TargetSpecs, 1)}

(***************************************************************************)
(* Mapping specifications with lookup dictionaries, and the dictionary     *)
(* workbooks they name.                                                    *)
(***************************************************************************)
TableSt == <<"s", "t">>
TableCc == <<"c", "c">>

DictFiles ==
    [p \in {"codes.xlsx"} |->
        << [name |-> "Sheet1",
            table |-> [columns |-> {"code", "label"},
                       index |-> <<0, 1, 2>>,
                       rows |-> << [code |-> <<" ", "k", "1">>, label |-> <<"A", "c", " ">>],
                                   [code |-> <<" ">>, label |-> <<"x">>],
                                   [code |-> <<"k", "2">>, label |-> <<"B">>] >>]] >>]

DictSources ==
    { [name |-> TableSt, path |-> "codes.xlsx", key_column |-> "code", value_column |-> "label"],
      [name |-> TableCc, path |-> "codes.xlsx", sheet |-> "Sheet1",
       key_column |-> "label", value_column |-> "code"],
      \* a path that does not exist
      [name |-> TableSt, path |-> "gone.xlsx", key_column |-> "code", value_column |-> "label"],
      \* a sheet that does not exist
      [name |-> TableCc, path |-> "codes.xlsx", sheet |-> "Nope",
       key_column |-> "code", value_column |-> "label"],
      \* a value column and a key column the sheet does not have
      [name |-> TableSt, path |-> "codes.xlsx", key_column |-> "code", value_column |-> "text"],
      [name |-> TableSt, path |-> "codes.xlsx", key_column |-> "id", value_column |-> "label"],
      \* no name
      [path |-> "codes.xlsx", key_column |-> "code", value_column |-> "label"] }

InlineSt == (Str(<<"k", "1">>) :> Str(<<"I">>)) @@ (IntV(1) :> Str(<<"O", "n", "e">>))

InlineDicts == {EmptyDict, [n \in {TableSt} |-> InlineSt]}

MapStatus ==
    [to |-> [column |-> ColA],
     from |-> <<[sheet |-> "details", column |-> "contract_number"]>>,
     transform |-> <<[name |-> "dict", params |-> Str(TableSt)]>>]

DictTargetSheets ==
    { <<[name |-> "Out", row_policy |-> "one_to_one", mappings |-> <<MapStatus>>]>>,
      <<[name |-> "Out", row_policy |-> "one_to_many_append", source |-> "details",
         mappings |-> <<MapStatus, MapConst>>],
        [name |-> "Gone", mappings |-> <<MapStatus>>]>> }

DictMappings ==
    {[join_keys |-> <<"contract_number">>, target_sheets |-> tss, dict |-> d, dict_sources |-> dss] :
        tss \in DictTargetSheets, d \in InlineDicts,
        dss \in SeqsUpTo(DictSources, MaxDictSources)}
    \cup {[join_keys |-> <<"contract_number">>, target_sheets |-> tss, dict_sources |-> dss] :
        tss \in DictTargetSheets, dss \in SeqsUpTo(DictSources, 1)}

DictRunSource == [s \in {"details"} |-> SheetTable("details", 2)]

DictRunTemplate == [s \in {"Out"} |-> (<<1, 1>> :> Str(ColA)) @@ (<<1, 2>> :> Str(ColZ))]

(***************************************************************************)
(* run() as a state machine.                                               *)
(***************************************************************************)
Init ==
    /\ \/ /\ mapping \in Mappings
          /\ source \in SourceBooks
          /\ template \in TemplateBooks
          /\ dict_files = EmptyDict
       \/ /\ mapping \in DictMappings
          /\ source = DictRunSource
          /\ template = DictRunTemplate
          /\ dict_files = DictFiles
    /\ pc = "start"
    /\ join_key = NoSource
    /\ df_map = EmptyDict
    /\ groups = EmptyDict
    /\ wb = EmptyDict
    /\ ti = 0
    /\ out = <<>>
    /\ saves = 0
    /\ calls = <<>>
    /\ LOOKUP_TABLES = EmptyDict
    /\ cin = <<>>
    /\ cres = <<>>
    /\ sheet_names = NoRun
    /\ limiter = NoRun
    /\ search = NoRun
    /\ fetch = NoRun

\* lines 484-517: the mapping is read, the lookup registry is loaded, the
\* source workbook and the template are read
LoadInputs ==
    /\ pc = "start"
    /\ IF mapping.join_keys = <<>>
       THEN /\ pc' = "raised"
            /\ UNCHANGED <<join_key, df_map, wb, LOOKUP_TABLES>>
       ELSE /\ pc' = "loaded"
            /\ join_key' = mapping.join_keys[1]
            /\ LOOKUP_TABLES' = load_lookup_tables(mapping, dict_files)
            /\ df_map' = source
            /\ wb' = template
    /\ UNCHANGED <<fetchVars, dict_files, cin, cres, mapping, source, template, groups, ti, out, saves, calls>>

\* a file that cannot be read: the mapping (line 484), or the source workbook
\* or the template (lines 516, 517) once the lookup registry is loaded
LoadFails ==
    /\ pc = "start"
    /\ pc' = "raised"
    /\ \/ UNCHANGED LOOKUP_TABLES
       \/ /\ mapping.join_keys # <<>>
          /\ LOOKUP_TABLES' = load_lookup_tables(mapping, dict_files)
    /\ UNCHANGED <<fetchVars, dict_files, cin, cres, mapping, source, template, join_key, df_map, groups, wb, ti, out, saves, calls>>

\* lines 521-544
BuildIndex ==
    /\ pc = "loaded"
    /\ LET filtered == filter_form(df_map, form_attr_names_of(mapping.target_sheets))
       IN  /\ df_map' = filtered
           /\ groups' = build_groups(filtered, used_sheets_of(mapping.target_sheets), join_key)
    /\ pc' = "sheets"
    /\ ti' = 1
    /\ UNCHANGED <<envVars, mapping, source, template, join_key, wb, out, saves, calls>>

\* line 545: the loop has a next target sheet spec
HasNext(p, i, tss) == p = "sheets" /\ i <= Len(tss)

\* a save that does not wait for the loop to end
LoopDone_early(p, i, tss) == p = "sheets"

\* line 559 is reached when the loop is exhausted
LoopDone(p, i, tss) == p = "sheets" /\ i > Len(tss)

CallRecord(kind, ts, before, r) ==
    [kind |-> kind, ts |-> ts, before |-> before, raised |-> r.raised, after |-> r.ws,
     base |-> r.base, start |-> r.start, count |-> r.count, res |-> r.res, rows |-> r.rows]

\* lines 546-548
SkipSheet ==
    /\ HasNext(pc, ti, mapping.target_sheets)
    /\ mapping.target_sheets[ti].name \notin DOMAIN wb
    /\ ti' = ti + 1
    /\ calls' = Append(calls, [kind |-> "skipped", ts |-> mapping.target_sheets[ti]])
    /\ UNCHANGED <<envVars, mapping, source, template, pc, join_key, df_map, groups, wb, out, saves>>

Finish(kind, ts, r) ==
    /\ calls' = Append(calls, CallRecord(kind, ts, wb[ts.name], r))
    /\ wb' = [wb EXCEPT ![ts.name] = r.ws]
    /\ pc' = IF r.raised THEN "raised" ELSE pc
    /\ ti' = IF r.raised THEN ti ELSE ti + 1
    /\ UNCHANGED <<envVars, mapping, source, template, join_key, df_map, groups, out, saves>>

\* lines 549-553
ProcessOneToOne ==
    /\ HasNext(pc, ti, mapping.target_sheets)
    /\ LET ts == mapping.target_sheets[ti]
       IN  /\ ts.name \in DOMAIN wb
           /\ Get(ts, "row_policy", "one_to_one") = "one_to_one"
           /\ Finish("one_to_one", ts, process_one_to_one(ts, df_map, wb, join_key, groups))

\* lines 554-555
ProcessSimpleAppend ==
    /\ HasNext(pc, ti, mapping.target_sheets)
    /\ LET ts == mapping.target_sheets[ti]
       IN  /\ ts.name \in DOMAIN wb
           /\ Get(ts, "row_policy", "one_to_one") # "one_to_one"
           /\ Finish("append", ts, process_simple_append(ts, df_map, wb))

\* line 559: wb.save(out_path)
Save ==
    /\ LoopDone(pc, ti, mapping.target_sheets)
    /\ out' = <<wb>>
    /\ saves' = saves + 1
    /\ pc' = "saved"
    /\ UNCHANGED <<envVars, mapping, source, template, join_key, df_map, groups, wb, ti, calls>>

\* line 559: the output path cannot be written
SaveFails ==
    /\ LoopDone(pc, ti, mapping.target_sheets)
    /\ pc' = "raised"
    /\ UNCHANGED <<envVars, mapping, source, template, join_key, df_map, groups, wb, ti, out, saves, calls>>

Next ==
    \/ LoadInputs
    \/ LoadFails
    \/ BuildIndex
    \/ SkipSheet
    \/ ProcessOneToOne
    \/ ProcessSimpleAppend
    \/ Save
    \/ SaveFails

Spec == Init /\ [][Next]_vars

(***************************************************************************)
(* One resolution on its own: lines 431-432 applied to a candidate list    *)
(* and a mapping, _dict_lookup_value applied to a table and a key, and     *)
(* tf_join_agg applied to a value list, with the registry ChainTables.     *)
(***************************************************************************)
TableInts == <<"n">>
TableNone == <<"e">>

ChainTables ==
    [n \in {TableSt, TableInts, TableNone} |->
        IF n = TableSt
        THEN (Str(<<"1">>) :> Str(<<"A", "c", "t", "i", "v", "e">>))
             @@ (Str(<<"a">>) :> Str(<<"A">>)) @@ (Str(<<"2">>) :> Str(<<"T", "w", "o">>))
        ELSE IF n = TableInts THEN (IntV(1) :> Str(<<"O", "n", "e">>))
        ELSE EmptyDict]

SA == Str(<<"a">>)
SB == Str(<<"b">>)
DictN1 == DictV(<<[k |-> <<"n", "a", "m", "e">>, v |-> Str(<<"n", "1">>)],
                  [k |-> <<"i", "d">>, v |-> IntV(1)]>>)

CandidateLists ==
    { <<>>, <<SA>>, <<Str(<<" ", "1", " ">>)>>, <<Str(<<"1", ",", "2", "3", "4", ".", "5", "0">>)>>,
      <<Str(<<"a", "b", "c">>)>>, <<Str(<<>>)>>, <<NoneV>>, <<IntV(1)>>,
      <<Str(<<"2", "0", "2", "4", "-", "0", "1", "-", "0", "5">>)>>,
      <<SA, SA, SB>>, <<SA, Str(<<>>), SB>>, <<Str(<<"a", "b", "c">>), Str(<<"1">>)>>,
      <<ListV(<<SA, SB>>), SA>>, <<ListV(<<ListV(<<SA>>), SB>>)>>,
      <<DictN1>>, <<ListV(<<DictN1, DictN1>>), DictN1>> }

StepPool ==
    { [name |-> "trim"],
      [name |-> "upper"],
      [name |-> "join_agg"],
      [name |-> "number_parse"],
      [name |-> "date_parse",
       params |-> [input_formats |-> << <<"y", "y", "y", "y", "/", "M", "M", "/", "d", "d">> >>]],
      [name |-> "format_each", params |-> [template |-> <<"<", "{", "x", "}", ">">>]],
      [name |-> "format_each", params |-> [template |-> <<"{", "y", "}">>]],
      [name |-> "dict", params |-> Str(TableSt)],
      [name |-> "dict", params |-> [table |-> TableSt, keep_original |-> FALSE,
                                    default |-> Str(<<"?">>)]],
      [name |-> "form_pick", params |-> [field |-> <<"n", "a", "m", "e">>]],
      [name |-> "form_pick", params |-> NoneV],
      [other |-> "empty_dict"],
      [other |-> "number"] }

Chains == {<<>>} \cup SeqsUpTo(StepPool, MaxChain)

ChainMappings ==
    {[transform |-> ch] : ch \in Chains}
    \cup {[transform |-> ch, default |-> Str(<<"d">>)] : ch \in Chains}
    \cup {[default |-> Str(<<"d">>)]}

LookupKeys ==
    { Str(<<"1">>), Str(<<" ", "1", " ">>), Str(<<"0", "1">>), Str(<<" ", "a">>), Str(<<"z">>),
      Str(<<>>), IntV(1), IntV(2), FloatV(1, 0), FloatV(15, 1), NoneV, ListV(<<SA>>), DictN1 }

JoinParams ==
    { EmptyDict, [unique |-> FALSE], [sep |-> <<"/">>], [sep |-> <<>>, unique |-> FALSE] }

\* texts and declared input formats handed to date_parse
DateTexts ==
    { <<"2", "0", "2", "4", "0", "1", "0", "5", "1", "2", "0", "0", "0", "0">>,
      <<"2", "0", "2", "4", "0", "1", "0", "5", "1", "2">>,
      <<"2", "0", "2", "4", "0", "1", "0", "5">>,
      <<"2", "0", "2", "4", "/", "0", "1", "/", "0", "5">>,
      <<" ", "2", "0", "2", "4", "-", "0", "1", "-", "0", "5">>,
      <<"0", "1", "/", "0", "2", "/", "2", "0", "2", "4">>,
      <<"1", "3", "/", "0", "2", "/", "2", "0", "2", "4">>,
      <<"a", "b", "c">>, <<" ">>, <<>> }

FmtCompact == <<"y", "y", "y", "y", "M", "M", "d", "d", "H", "H", "m", "m", "s", "s">>
FmtHour == <<"y", "y", "y", "y", "M", "M", "d", "d", "H", "H">>
FmtSlash == <<"y", "y", "y", "y", "/", "M", "M", "/", "d", "d">>
FmtDayFirst == <<"d", "d", "/", "M", "M", "/", "y", "y", "y", "y">>
FmtMonthFirst == <<"M", "M", "/", "d", "d", "/", "y", "y", "y", "y">>

DateFormats ==
    { <<>>, <<FmtSlash>>, <<FmtCompact>>, <<FmtHour, FmtCompact>>,
      <<FmtDayFirst, FmtMonthFirst>>, <<FmtMonthFirst, FmtDayFirst>>, <<FmtSlash, FmtDayFirst>> }

\* params objects handed to the dict step
DictParams ==
    { Str(TableSt), Str(<<>>), NoneV, EmptyDict,
      [table |-> TableSt],
      [table |-> TableSt, keep_original |-> FALSE],
      [table |-> TableSt, keep_original |-> FALSE, default |-> Str(<<"?">>)],
      [table |-> TableSt, default |-> Str(<<"?">>)],
      [table |-> TableNone, default |-> Str(<<"?">>)],
      [table |-> <<"g", "o", "n", "e">>, keep_original |-> FALSE],
      [default |-> Str(<<"?">>)] }

\* value sequences handed to the dict step
DictValues ==
    { <<>>, <<Str(<<"1">>)>>, <<IntV(1), Str(<<" ", "a">>), Str(<<"z">>)>>,
      <<NoneV, Str(<<>>), Str(<<"z">>)>>, <<IntV(2), FloatV(15, 1)>>,
      <<Str(<<" ", "1", " ">>), NoneV>>, <<Str(<<" ">>), IntV(0)>> }

InitChain ==
    /\ mapping = [join_keys |-> <<>>, target_sheets |-> <<>>]
    /\ source = EmptyDict
    /\ template = EmptyDict
    /\ dict_files = EmptyDict
    /\ pc = "resolve"
    /\ join_key = NoSource
    /\ df_map = EmptyDict
    /\ groups = EmptyDict
    /\ wb = EmptyDict
    /\ ti = 0
    /\ out = <<>>
    /\ saves = 0
    /\ calls = <<>>
    /\ LOOKUP_TABLES = ChainTables
    /\ \/ cin \in {[op |-> "resolve", vals |-> v, mp |-> m] :
                      v \in CandidateLists, m \in ChainMappings}
       \/ cin \in {[op |-> "lookup", table |-> n, key |-> k] :
                      n \in DOMAIN ChainTables, k \in LookupKeys}
       \/ cin \in {[op |-> "join_agg", vals |-> v, params |-> p] :
                      v \in CandidateLists, p \in JoinParams}
       \/ cin \in {[op |-> "date_parse", txt |-> t, fmts |-> f] :
                      t \in DateTexts, f \in DateFormats}
       \/ cin \in {[op |-> "dict", vals |-> v, params |-> p] :
                      v \in DictValues, p \in DictParams}
    /\ cres = <<>>
    /\ sheet_names = NoRun
    /\ limiter = NoRun
    /\ search = NoRun
    /\ fetch = NoRun

runVars == <<mapping, source, template, pc, join_key, df_map, groups, wb, ti, out, saves, calls,
             dict_files, LOOKUP_TABLES, sheet_names, limiter, search, fetch>>

\* lines 431-432
ResolveValue ==
    /\ pc = "resolve" /\ cin.op = "resolve" /\ cres = <<>>
    /\ cres' = <<resolve_values(cin.vals, cin.mp)>>
    /\ UNCHANGED <<runVars, cin>>

\* line 322: _dict_lookup_value(table, v)
LookupValue ==
    /\ pc = "resolve" /\ cin.op = "lookup" /\ cres = <<>>
    /\ cres' = <<_dict_lookup_value(LOOKUP_TABLES[cin.table], cin.key)>>
    /\ UNCHANGED <<runVars, cin>>

\* line 363 with fn = tf_join_agg
JoinAgg ==
    /\ pc = "resolve" /\ cin.op = "join_agg" /\ cres = <<>>
    /\ cres' = <<tf_join_agg(cin.vals, cin.params)>>
    /\ UNCHANGED <<runVars, cin>>

\* line 233: _try_parse_date(_to_str(v), fmts)
DateParse ==
    /\ pc = "resolve" /\ cin.op = "date_parse" /\ cres = <<>>
    /\ cres' = <<_try_parse_date(cin.txt, cin.fmts)>>
    /\ UNCHANGED <<runVars, cin>>

\* line 363 with fn = tf_dict_lookup
DictLookup ==
    /\ pc = "resolve" /\ cin.op = "dict" /\ cres = <<>>
    /\ cres' = <<tf_dict_lookup(cin.vals, cin.params)>>
    /\ UNCHANGED <<runVars, cin>>

NextChain ==
    \/ ResolveValue
    \/ LookupValue
    \/ JoinAgg
    \/ DateParse
    \/ DictLookup

SpecChain == InitChain /\ [][NextChain]_vars

(***************************************************************************)
(* convert/jsonl_to_tabular.py: the sheet names convert_jsonl gives to the *)
(* list keys, one call of _sanitize_sheet_name per key on one used map.    *)
(***************************************************************************)
\* line 106
invalid == {"[", "]", ":", "*", "?", "/", "\\"}

\* line 110: the sheet name limit of Excel
SheetNameLimit == 31

XRun(n) == [i \in 1..n |-> "x"]

\* keys of the list columns of a JSONL file
SheetKeys ==
    { <<"a">>, <<"a", "_", "1">>, <<"[", "a", "]">>, <<"[", "]", ":">>, <<>>,
      <<"s", "h", "e", "e", "t">>,
      XRun(SheetNameLimit), XRun(SheetNameLimit + 2),
      XRun(SheetNameLimit - 2) \o <<"_", "1">>,
      <<"/">> \o XRun(SheetNameLimit - 1) \o <<"y">> }

\* lines 107-110
cleaned_name(name) ==
    LET kept == SelectSeq(name, LAMBDA ch : ch \notin invalid)
        named == IF kept = <<>> THEN <<"s", "h", "e", "e", "t">> ELSE kept
    IN  SubSeq(named, 1, IF Len(named) < SheetNameLimit THEN Len(named) ELSE SheetNameLimit)

\* lines 116-117, 121-122
suffixed_name(cleaned, suffix) ==
    LET room == SheetNameLimit - Len(NatStr(suffix)) - 1
        keep == IF room < 0 THEN 0 ELSE IF room < Len(cleaned) THEN room ELSE Len(cleaned)
    IN  SubSeq(cleaned, 1, keep) \o <<"_">> \o NatStr(suffix)

\* the first suffix tried, taken whether or not its name is in use
first_suffix(cleaned, suffix, used) == suffix

\* lines 118-122: the loop that looks for a suffix whose name is not in use
RECURSIVE unused_suffix(_, _, _)
unused_suffix(cleaned, suffix, used) ==
    IF suffixed_name(cleaned, suffix) \in DOMAIN used
    THEN unused_suffix(cleaned, suffix + 1, used)
    ELSE suffix

\* lines 111-124 once the name is cleaned
give_name(cleaned, used) ==
    IF cleaned \notin DOMAIN used
    THEN [name |-> cleaned, used |-> (cleaned :> 0) @@ used]
    ELSE LET suffix == unused_suffix(cleaned, used[cleaned] + 1, used)
             final == suffixed_name(cleaned, suffix)
         IN  [name |-> final, used |-> (final :> 0) @@ [used EXCEPT ![cleaned] = suffix]]

\* lines 105-124
_sanitize_sheet_name(name, used) == give_name(cleaned_name(name), used)

\* everything outside the sheet naming, at rest
RestOfProgram ==
    /\ mapping = [join_keys |-> <<>>, target_sheets |-> <<>>]
    /\ source = EmptyDict
    /\ template = EmptyDict
    /\ dict_files = EmptyDict
    /\ pc = "rest"
    /\ join_key = NoSource
    /\ df_map = EmptyDict
    /\ groups = EmptyDict
    /\ wb = EmptyDict
    /\ ti = 0
    /\ out = <<>>
    /\ saves = 0
    /\ calls = <<>>
    /\ LOOKUP_TABLES = EmptyDict
    /\ cin = <<>>
    /\ cres = <<>>

\* line 295: used = {}
InitNames ==
    /\ RestOfProgram
    /\ sheet_names = [used |-> <<>>, keys |-> <<>>, names |-> <<>>]
    /\ limiter = NoRun
    /\ search = NoRun
    /\ fetch = NoRun

\* lines 296-297: one iteration of the loop over list_keys
SanitizeKey ==
    /\ Len(sheet_names.keys) < MaxKeys
    /\ \E key \in SheetKeys :
          LET given == _sanitize_sheet_name(key, sheet_names.used)
          IN  sheet_names' = [used |-> given.used,
                              keys |-> Append(sheet_names.keys, key),
                              names |-> Append(sheet_names.names, given.name)]
    /\ UNCHANGED <<ownVars, cin, cres, limiter, search, fetch>>

NextNames == SanitizeKey

SpecNames == InitNames /\ [][NextNames]_vars

(***************************************************************************)
(* fetch/client.py: one RateLimiter shared by threads. The clock counts    *)
(* ticks of 0.2 s; the section of acquire() and of set_cooldown() under    *)
(* the lock is one step, taken at the clock reading it makes.              *)
(***************************************************************************)
\* line 69: a waiting thread sleeps at most 0.2 s (one tick) at a time
SleepCap == 1

\* the arguments of RateLimiter(max_calls, period), the period in ticks
LimiterArgs == {<<0, 2>>, <<1, 2>>, <<2, 2>>}

\* the arguments of set_cooldown, in ticks
CooldownSeconds == {0 - 1, 2}

Threads == 1..MaxThreads

\* lines 62-63: the times older than the period leave the window
RECURSIVE unexpired(_, _, _)
unexpired(times, now, period) ==
    IF times # <<>> /\ (now - times[1]) >= period
    THEN unexpired(Tail(times), now, period)
    ELSE times

\* room for one call more than max_calls
has_room_at_limit(times, max_calls) == Len(times) <= max_calls

\* line 64
has_room(times, max_calls) == Len(times) < max_calls

\* lines 64-67 on the popped window: granted, or the time left to wait;
\* with no room and an empty window (max_calls < 1) line 67 raises IndexError
grant_or_wait(times, now, max_calls, period) ==
    IF has_room(times, max_calls)
    THEN [granted |-> TRUE, raised |-> FALSE, _times |-> Append(times, now), sleep_time |-> 0]
    ELSE IF times = <<>>
    THEN [granted |-> FALSE, raised |-> TRUE, _times |-> times, sleep_time |-> 0]
    ELSE [granted |-> FALSE, raised |-> FALSE, _times |-> times,
          sleep_time |-> period - (now - times[1])]

\* lines 58-67: the section of acquire() under the lock
acquire_locked(l) ==
    IF l.now < l._cooldown_until
    THEN [granted |-> FALSE, raised |-> FALSE, _times |-> l._times,
          sleep_time |-> l._cooldown_until - l.now]
    ELSE grant_or_wait(unexpired(l._times, l.now, l.period), l.now, l.max_calls, l.period)

\* lines 68-71: the length of the sleep, 0.001 s being less than a tick
sleep_length(sleep_time) ==
    IF sleep_time > 0 THEN (IF sleep_time < SleepCap THEN sleep_time ELSE SleepCap) ELSE 0

\* the deadline set from the call alone
cooldown_overwritten(until, now, seconds) == now + (IF seconds > 0 THEN seconds ELSE 0)

\* line 76
cooldown_deadline(until, now, seconds) ==
    LET asked == now + (IF seconds > 0 THEN seconds ELSE 0)
    IN  IF until > asked THEN until ELSE asked

\* one entry of the history of the limiter
LimiterEvent(kind, t, s, before, after) ==
    [kind |-> kind, t |-> t, s |-> s, before |-> before, after |-> after]

\* lines 47-52: RateLimiter.__init__, no thread inside the limiter
InitLimiter ==
    /\ RestOfProgram
    /\ limiter \in {[max_calls |-> a[1], period |-> a[2], _times |-> <<>>,
                     _cooldown_until |-> 0, now |-> 0,
                     threads |-> [th \in Threads |-> [at |-> "out", until |-> 0]],
                     events |-> <<>>] : a \in LimiterArgs}
    /\ sheet_names = NoRun
    /\ search = NoRun
    /\ fetch = NoRun

OtherThanLimiter == <<ownVars, cin, cres, sheet_names, search, fetch>>

\* time.time() advances
Tick ==
    /\ limiter.now < MaxTime
    /\ limiter' = [limiter EXCEPT !.now = @ + 1]
    /\ UNCHANGED OtherThanLimiter

\* the limiter after the section under the lock, taken by thread th with outcome got
after_acquire(l, th, got) ==
    [l EXCEPT !._times = got._times,
              !.threads[th] =
                  IF got.granted THEN [at |-> "out", until |-> 0]
                  ELSE IF got.raised THEN [at |-> "raised", until |-> 0]
                  ELSE [at |-> "sleep", until |-> l.now + sleep_length(got.sleep_time)],
              !.events =
                  IF got.granted
                  THEN Append(@, LimiterEvent("return", l.now, 0, l._cooldown_until,
                                              l._cooldown_until))
                  ELSE @]

\* lines 54-71: a thread calls acquire() and makes the first iteration of its loop
Acquire ==
    /\ \E th \in Threads :
          /\ limiter.threads[th].at = "out"
          /\ limiter' = after_acquire(limiter, th, acquire_locked(limiter))
    /\ UNCHANGED OtherThanLimiter

\* lines 55-71: the sleep of a waiting thread ends and it makes the next iteration
AcquireAgain ==
    /\ \E th \in Threads :
          /\ limiter.threads[th].at = "sleep"
          /\ limiter.now >= limiter.threads[th].until
          /\ limiter' = after_acquire(limiter, th, acquire_locked(limiter))
    /\ UNCHANGED OtherThanLimiter

\* the limiter after set_cooldown(seconds) with the deadline moved to deadline
after_cooldown(l, seconds, deadline) ==
    [l EXCEPT !._cooldown_until = deadline,
              !.events = Append(@, LimiterEvent("cooldown", l.now, seconds,
                                                l._cooldown_until, deadline))]

CooldownsSet(l) == Len(SelectSeq(l.events, LAMBDA e : e.kind = "cooldown"))

\* lines 73-76: a thread outside acquire() calls set_cooldown(seconds)
SetCooldown ==
    /\ CooldownsSet(limiter) < MaxCooldowns
    /\ \E th \in Threads, seconds \in CooldownSeconds :
          /\ limiter.threads[th].at = "out"
          /\ limiter' = after_cooldown(limiter, seconds,
                            cooldown_deadline(limiter._cooldown_until, limiter.now, seconds))
    /\ UNCHANGED OtherThanLimiter

NextLimiter ==
    \/ Tick
    \/ Acquire
    \/ AcquireAgain
    \/ SetCooldown

SpecLimiter == InitLimiter /\ [][NextLimiter]_vars

(***************************************************************************)
(* fetch/client.py: one call of search_contracts or of                     *)
(* search_contracts_by_number, one step per request sent.                  *)
(***************************************************************************)
\* lines 150, 223: the retries of one page
RetryLimit == 3

\* lines 150, 223: the provider's throttle codes
ThrottleCodes == {9499, 99991400}

\* a response without a code in its body
NoCode == 0 - 1

Response(kind, status, code, n, more) ==
    [kind |-> kind, status |-> status, code |-> code, n |-> n, more |-> more]

\* what one request can come back with: a page of n items, a 2xx response
\* with a code other than 0, an HTTP error, or no response at all
Responses ==
    {Response("page", 200, 0, n, m) : n \in 0..2, m \in BOOLEAN}
    \cup {Response("page", 200, 9499, 0, FALSE), Response("page", 200, 1001, 0, FALSE),
          Response("http_error", 429, NoCode, 0, FALSE),
          Response("http_error", 400, 9499, 0, FALSE),
          Response("http_error", 400, 99991400, 0, FALSE),
          Response("http_error", 400, 1001, 0, FALSE),
          Response("http_error", 500, NoCode, 0, FALSE),
          Response("no_response", 0, NoCode, 0, FALSE)}

SearchMethods == {"search_contracts", "search_contracts_by_number"}

\* a retry whatever the HTTP error
retry_any_error(resp, attempts) == TRUE

\* lines 150, 223
retry_throttled(resp, attempts) ==
    (resp.code \in ThrottleCodes \/ resp.status = 429) /\ attempts < RetryLimit

\* the call ended with an exception
search_raised(s) == [s EXCEPT !.at = "raised"]

\* the call ended with the list ret
search_returned(s, ret) == [s EXCEPT !.at = "returned", !.ret = ret]

\* lines 140-165, 213-240: the handler of requests.HTTPError
on_http_error(s, retry) ==
    IF retry
    THEN [s EXCEPT !.attempts = @ + 1, !.cooldowns = @ + 1,
                   !.retried = @ \cup {<<s.last.status, s.last.code>>}]
    ELSE IF s.method = "search_contracts"
    THEN search_raised(s)
    ELSE search_returned(s, s.items)

\* lines 183-193, 248-254 with the list grown to items
on_page(s, items) ==
    IF s.method = "search_contracts" /\ s.max_items > 0 /\ items >= s.max_items
    THEN search_returned([s EXCEPT !.items = s.max_items], s.max_items)
    ELSE IF ~s.last.more
    THEN search_returned([s EXCEPT !.items = items, !.pages = @ + 1], items)
    ELSE [s EXCEPT !.items = items, !.pages = @ + 1, !.attempts = 0, !.sends = 0]

\* lines 130-193, 207-254 once the request is sent and answered
on_response(s) ==
    IF s.last.kind = "no_response" THEN search_raised(s)
    ELSE IF s.last.kind = "http_error"
    THEN on_http_error(s, retry_throttled(s.last, s.attempts))
    ELSE IF s.last.code # 0 THEN search_raised(s)
    ELSE on_page(s, s.items + s.last.n)

\* lines 137, 210: the request is sent and comes back with resp
sent(s, resp) ==
    [s EXCEPT !.sends = @ + 1,
              !.most_sends = IF s.sends + 1 > @ THEN s.sends + 1 ELSE @,
              !.last = resp]

\* lines 109-113, 195-199: the call starts with no item and no page
InitSearch ==
    /\ RestOfProgram
    /\ search \in {[method |-> m, max_items |-> x, items |-> 0, pages |-> 0, attempts |-> 0,
                    sends |-> 0, most_sends |-> 0, cooldowns |-> 0, retried |-> {},
                    last |-> Response("none", 0, NoCode, 0, FALSE),
                    at |-> "running", ret |-> 0] :
                       m \in SearchMethods, x \in {0, 1}}
    /\ sheet_names = NoRun
    /\ limiter = NoRun
    /\ fetch = NoRun

\* lines 130-193, 207-254: one request of the page at hand and what follows it
SendPage ==
    /\ search.at = "running"
    /\ \E resp \in Responses :
          /\ resp.more => search.pages + 1 < MaxPages
          /\ search' = on_response(sent(search, resp))
    /\ UNCHANGED <<ownVars, cin, cres, sheet_names, limiter, fetch>>

NextSearch == SendPage

SpecSearch == InitSearch /\ [][NextSearch]_vars

(***************************************************************************)
(* fetch/client.py: one run of run_fetch. The server holds, for every key, *)
(* the contract ids its search finds; a search or a detail fetch may fail. *)
(***************************************************************************)
\* line 537
max_retry_rounds == 3

\* line 538
total_passes == max_retry_rounds + 1

KeyOrder == <<"k1", "k2", "k3">>

\* what the search of a key finds on the server: contract ids, "" for an
\* item without contract_id
Found(a, b, c) == [k \in {"k1", "k2", "k3"} |-> IF k = "k1" THEN a ELSE IF k = "k2" THEN b ELSE c]

\* the keys of cfg and what the server holds for them
FetchInputs ==
    { [codes |-> <<"k1", "k2">>, found |-> Found(<<"c1">>, <<"c2">>, <<>>)],
      [codes |-> <<"k1", "k2">>, found |-> Found(<<"c1">>, <<"c1">>, <<>>)],
      [codes |-> <<"k2", "k1">>, found |-> Found(<<>>, <<"c1", "c2">>, <<>>)],
      [codes |-> <<"k1", "k2">>, found |-> Found(<<"", "c1">>, <<"">>, <<>>)],
      [codes |-> <<"k1", "k2", "k3">>, found |-> Found(<<"c1">>, <<"c2">>, <<"c3">>)],
      [codes |-> <<>>, found |-> Found(<<>>, <<>>, <<>>)] }

\* cfg.limit_contracts
LimitContracts == {0, 1}

StatusRow(key, id, status, error, attempt) ==
    [key |-> key, id |-> id, status |-> status, error |-> error, attempt |-> attempt]

\* line 500: sorted(failed_codes)
sorted_codes(failed) == SelectSeq(KeyOrder, LAMBDA k : k \in failed)

\* the next pass takes the list of the pass again
retry_same_codes(codes, failed) == codes

\* lines 500, 564: the next pass takes the failed keys
retry_failed_codes(codes, failed) == sorted_codes(failed)

\* a record is written whether or not its id was written before
write_always(cid, seen_ids) == TRUE

\* line 457: the guard of the write
not_yet_written(cid, seen_ids) == cid \notin seen_ids

with_row(f, row) == [f EXCEPT !.status_rows = Append(@, row)]

\* lines 458-464
written(f, code, cid, detail) ==
    [f EXCEPT !.jsonl = Append(@, [id |-> cid, code |-> code, attempt |-> f.attempt,
                                   detail |-> detail]),
              !.seen_ids = @ \cup {cid},
              !.count_written = @ + 1,
              !.code_any_success = TRUE]

\* lines 442-479: one item of the search result, its detail fetch ending as detail
item_done(f, code, cid, detail) ==
    IF cid = ""
    THEN with_row(f, StatusRow(code, "", "fail", "missing_contract_id", f.attempt))
    ELSE IF detail = "error"
    THEN with_row(f, StatusRow(code, cid, "fail", "detail_error", f.attempt))
    ELSE with_row(IF not_yet_written(cid, f.seen_ids) THEN written(f, code, cid, detail) ELSE f,
                  StatusRow(code, cid, "success", "", f.attempt))

\* lines 441-479
RECURSIVE items_done(_, _, _, _, _)
items_done(f, code, items, details, i) ==
    IF i > Len(items) THEN f
    ELSE items_done(item_done(f, code, items[i], details[i]), code, items, details, i + 1)

\* lines 480-499: the end of an iteration that went through the items
code_done(f, code) ==
    [f EXCEPT !.failed_codes = IF f.code_any_success THEN @ ELSE @ \cup {code},
              !.idx = @ + 1,
              !.at = IF (f.limit_contracts > 0 /\ f.count_written >= f.limit_contracts)
                        \/ f.idx + 1 = Len(f.current_codes)
                     THEN "pass_end" ELSE "pass"]

\* lines 388-409, 418-439: the iteration ends with one fail row
code_failed(f, code, error) ==
    [with_row(f, StatusRow(code, "", "fail", error, f.attempt))
        EXCEPT !.failed_codes = @ \cup {code},
               !.idx = @ + 1,
               !.at = IF f.idx + 1 = Len(f.current_codes) THEN "pass_end" ELSE "pass"]

\* lines 377-499: one iteration, the search ending as searched
process_code(f, code, searched, details) ==
    IF searched = "raises" THEN code_failed(f, code, "search_error")
    ELSE IF searched = "degraded" \/ f.found[code] = <<>> THEN code_failed(f, code, "not_found")
    ELSE code_done(items_done([f EXCEPT !.code_any_success = FALSE], code, f.found[code],
                              details, 1), code)

\* the searches and detail fetches that failed
faults_of(searched, details) ==
    (IF searched = "ok" THEN 0 ELSE 1)
    + Cardinality({i \in DOMAIN details : details[i] = "error"})

\* how the detail fetches of the items of a key may end
DetailOutcomes(items) ==
    {d \in [1..Len(items) -> {"ok", "error"}] : \A i \in 1..Len(items) : items[i] = "" => d[i] = "ok"}

\* run_fetch is called
InitFetch ==
    /\ RestOfProgram
    /\ fetch \in {[codes |-> x.codes, found |-> x.found, limit_contracts |-> n, at |-> "start",
                   attempt |-> 0, current_codes |-> <<>>, idx |-> 0, status_rows |-> <<>>,
                   failed_codes |-> {}, count_written |-> 0, code_any_success |-> FALSE,
                   seen_ids |-> {}, jsonl |-> <<>>, status_csv |-> <<>>, passes |-> <<>>,
                   faults |-> 0] : x \in FetchInputs, n \in LimitContracts}
    /\ sheet_names = NoRun
    /\ limiter = NoRun
    /\ search = NoRun

OtherThanFetch == <<ownVars, cin, cres, sheet_names, limiter, search>>

\* lines 517-541: no key ends the run, else the first pass starts
StartFetch ==
    /\ fetch.at = "start"
    /\ fetch' = IF fetch.codes = <<>>
                THEN [fetch EXCEPT !.at = "done"]
                ELSE [fetch EXCEPT !.at = "pass", !.attempt = 1, !.current_codes = fetch.codes]
    /\ UNCHANGED OtherThanFetch

\* lines 377-499: one iteration of the loop over the keys of the pass
ProcessCode ==
    /\ fetch.at = "pass"
    /\ \E searched \in {"ok", "raises", "degraded"} :
          \E details \in DetailOutcomes(fetch.found[fetch.current_codes[fetch.idx + 1]]) :
              /\ searched # "ok" => \A i \in DOMAIN details : details[i] = "ok"
              /\ fetch.faults + faults_of(searched, details) <= MaxFaults
              /\ fetch' = process_code(
                              [fetch EXCEPT !.faults = @ + faults_of(searched, details)],
                              fetch.current_codes[fetch.idx + 1], searched, details)
    /\ UNCHANGED OtherThanFetch

\* the run with the pass entered in its history and in the status file
pass_recorded(f) ==
    [f EXCEPT !.passes = Append(@, [attempt |-> f.attempt, codes |-> f.current_codes,
                                    rows |-> f.status_rows, failed |-> f.failed_codes]),
              !.status_csv = IF f.attempt > 1 THEN @ \o f.status_rows ELSE f.status_rows]

\* lines 560-564 and the head of the next pass, which takes the keys codes
next_pass(f, codes) ==
    IF f.failed_codes = {} \/ f.attempt >= total_passes
    THEN [f EXCEPT !.at = "done"]
    ELSE [f EXCEPT !.at = "pass", !.attempt = @ + 1, !.current_codes = codes, !.idx = 0,
                   !.status_rows = <<>>, !.failed_codes = {}, !.count_written = 0]

\* lines 500, 541-564: the pass returns and run_fetch decides on the next
EndPass ==
    /\ fetch.at = "pass_end"
    /\ fetch' = next_pass(pass_recorded(fetch),
                          retry_failed_codes(fetch.current_codes, fetch.failed_codes))
    /\ UNCHANGED OtherThanFetch

NextFetch ==
    \/ StartFetch
    \/ ProcessCode
    \/ EndPass

SpecFetch == InitFetch /\ [][NextFetch]_vars

(***************************************************************************)
(* Properties.                                                             *)
(***************************************************************************)
CallIdx == 1..Len(calls)
Returned(c) == c.kind # "skipped" /\ ~c.raised
DeclaredSource(ts) == IF "source" \in DOMAIN ts THEN ts.source ELSE NoSource
MappingsOf(ts) == IF "mappings" \in DOMAIN ts THEN ts.mappings ELSE <<>>
SameValues(a, b) ==
    \A p \in DOMAIN a \cup DOMAIN b : CellValue(a, p[1], p[2]) = CellValue(b, p[1], p[2])
TrimmedHeader(ws, j) == strip(IF <<1, j>> \in DOMAIN ws /\ ws[<<1, j>>] # NoneV
                              THEN ws[<<1, j>>].s ELSE <<>>)
ColumnsOf(ws) == {p[2] : p \in DOMAIN ws} \cup {1}
LastRow(ws) == IF DOMAIN ws = {} THEN 1
               ELSE CHOOSE r \in {p[1] : p \in DOMAIN ws} : \A p \in DOMAIN ws : p[1] <= r
\* the output rows of call c sit where the header says, and nowhere else
HeaderAligned(c) ==
    \A k \in 1..c.count :
        /\ \A j \in ColumnsOf(c.after) :
              <<c.start + k - 1, j>> \in DOMAIN c.after =>
                  /\ TrimmedHeader(c.before, j) \in DOMAIN c.rows[k]
                  /\ c.after[<<c.start + k - 1, j>>] = c.rows[k][TrimmedHeader(c.before, j)]
        /\ \A key \in DOMAIN c.rows[k] :
              (\E j \in ColumnsOf(c.before) : TrimmedHeader(c.before, j) = key) =>
                  \E j \in ColumnsOf(c.before) :
                      /\ TrimmedHeader(c.before, j) = key
                      /\ <<c.start + k - 1, j>> \in DOMAIN c.after
                      /\ c.after[<<c.start + k - 1, j>>] = c.rows[k][key]

\* C1: under one_to_many_append, a target sheet of the template whose declared
\* source table is in the source workbook with N rows gets exactly N new rows,
\* each value in the column whose header equals the target column, and no cell
\* of row 1 is written.
C1_AppendAddsOneRowPerSourceRow ==
    \A n \in CallIdx :
        LET c == calls[n] IN
        (c.kind = "append" /\ ~c.raised /\ DeclaredSource(c.ts) \in DOMAIN source) =>
            /\ c.count = Len(source[DeclaredSource(c.ts)].rows)
            /\ HeaderAligned(c)
            /\ \A j \in ColumnsOf(c.after) : CellValue(c.after, 1, j) = CellValue(c.before, 1, j)

\* C2: process_one_to_one produces exactly one output row per row of the base
\* table: the returned count and the number of consecutive sheet rows consumed
\* both equal the base table's row count; an empty base table gives zero rows
\* and no error.
C2_OneToOneRowPerBaseRow ==
    \A n \in CallIdx :
        LET c == calls[n] IN
        c.kind = "one_to_one" =>
            /\ ~c.raised =>
                  /\ c.count = Len(df_map[c.base].rows)
                  /\ Len(c.res) = c.count
                  /\ \A p \in DOMAIN c.after :
                        p \notin DOMAIN c.before /\ p[1] # 1 =>
                            p[1] \in c.start..(c.start + c.count - 1)
            /\ (c.base \in DOMAIN df_map /\ df_map[c.base].rows = <<>>) =>
                  /\ ~c.raised
                  /\ c.count = 0
                  /\ SameValues(c.before, c.after)

C2_Witness ==
    /\ \E n \in CallIdx :
          /\ calls[n].kind = "one_to_one" /\ ~calls[n].raised /\ calls[n].count >= 2
          /\ calls[n].after # calls[n].before
    /\ pc = "saved"

\* C3: under one_to_one the base table is `details` whenever the source
\* workbook contains it, whatever source the target sheet declares; the declared
\* source is the base table only when `details` is absent.
C3_DetailsIsBaseWhenPresent ==
    \A n \in CallIdx :
        LET c == calls[n] IN
        c.kind = "one_to_one" =>
            c.base = IF "details" \in DOMAIN source THEN "details" ELSE DeclaredSource(c.ts)

C3_Witness ==
    \E n \in CallIdx :
        /\ calls[n].kind = "one_to_one" /\ ~calls[n].raised /\ calls[n].count >= 1
        /\ DeclaredSource(calls[n].ts) = "payments"
        /\ "payments" \in DOMAIN source
        /\ calls[n].base = "details"

\* C4: for every column mapping and base row the resolved value is the first
\* element of the transform chain's result when that is non-empty, else the
\* mapping's declared default (the empty string when none is declared), under
\* both row policies.
C4_FirstOrDefault ==
    \A n \in CallIdx :
        LET c == calls[n] IN
        Returned(c) =>
            \A k \in 1..c.count : \A j \in 1..Len(MappingsOf(c.ts)) :
                LET r == c.res[k][j]
                    mp == MappingsOf(c.ts)[j]
                IN  /\ r.chain_out # <<>> => r.final = r.chain_out[1]
                    /\ (r.chain_out = <<>> /\ "default" \in DOMAIN mp) => r.final = mp.default
                    /\ (r.chain_out = <<>> /\ "default" \notin DOMAIN mp) => r.final = Str(<<>>)
                    /\ (\A j2 \in (j + 1)..Len(MappingsOf(c.ts)) :
                            MappingsOf(c.ts)[j2].to.column # mp.to.column)
                        => c.rows[k][mp.to.column] = r.final

C4_Witness ==
    \E n \in CallIdx :
        /\ calls[n].kind = "one_to_one" /\ ~calls[n].raised /\ calls[n].count >= 1
        /\ \E j \in 1..Len(MappingsOf(calls[n].ts)) :
              /\ calls[n].res[1][j].chain_out = <<>>
              /\ calls[n].res[1][j].final = Str(<<"-">>)
        /\ \E m \in CallIdx : \E j \in 1..Len(MappingsOf(calls[m].ts)) :
              /\ calls[m].kind = "one_to_one" /\ ~calls[m].raised /\ calls[m].count >= 1
              /\ Len(calls[m].res[1][j].chain_out) >= 2

\* the target sheet specs run() does not skip
Unskipped(tss, w) == SelectSeq(tss, LAMBDA ts : ts.name \in DOMAIN w)

RECURSIVE SheetsAfter(_, _, _, _, _)
SheetsAfter(tss, dfm, grps, jk, w) ==
    IF tss = <<>> THEN w
    ELSE LET ts == Head(tss)
             r == IF Get(ts, "row_policy", "one_to_one") = "one_to_one"
                  THEN process_one_to_one(ts, dfm, w, jk, grps)
                  ELSE process_simple_append(ts, dfm, w)
         IN  IF ts.name \notin DOMAIN w THEN SheetsAfter(Tail(tss), dfm, grps, jk, w)
             ELSE IF r.raised THEN <<>>
             ELSE SheetsAfter(Tail(tss), dfm, grps, jk, [w EXCEPT ![ts.name] = r.ws])

\* the workbook run() saves for the target sheet specs tss (<<>> if it raises)
WorkbookOf(tss) ==
    LET dfm == filter_form(source, form_attr_names_of(tss))
        grps == build_groups(dfm, used_sheets_of(tss), mapping.join_keys[1])
    IN  SheetsAfter(tss, dfm, grps, mapping.join_keys[1], template)

\* C5: a target sheet spec whose name is not a sheet of the template is skipped:
\* none of its mappings is evaluated, no cell is written for it, no error is
\* raised, and every other spec produces the rows it would produce if the
\* skipped spec were not in the specification.
C5_SkippedSpecHasNoEffect ==
    /\ \A n \in CallIdx :
          calls[n].ts.name \notin DOMAIN template => calls[n].kind = "skipped"
    /\ pc = "saved" =>
          out = << WorkbookOf(Unskipped(mapping.target_sheets, template)) >>

\* C6: under one_to_many_append a target sheet whose declared source table is
\* missing from the source workbook, or that declares no source, contributes
\* zero rows, leaves the target sheet unchanged and raises no error.
C6_MissingSourceAppendsNothing ==
    \A n \in CallIdx :
        LET c == calls[n] IN
        (c.kind = "append" /\ DeclaredSource(c.ts) \notin DOMAIN source) =>
            /\ ~c.raised
            /\ c.count = 0
            /\ SameValues(c.before, c.after)
            /\ LastRow(c.after) = LastRow(c.before)
            /\ ti > n

C6_Witness ==
    /\ \E n \in CallIdx :
          /\ calls[n].kind = "append"
          /\ DeclaredSource(calls[n].ts) = "payments"
          /\ "payments" \notin DOMAIN source
    /\ \E n \in CallIdx :
          /\ calls[n].kind = "append"
          /\ "source" \notin DOMAIN calls[n].ts
    /\ pc = "saved"

\* C7: the rows a target sheet spec writes occupy consecutive row indices
\* starting right after the sheet's last populated row (the last row holding a
\* cell) at the moment the spec starts, also when several specs name the same
\* sheet; no cell populated before the spec started is overwritten.
C7_AppendsBelowLastRow ==
    \A n \in CallIdx :
        LET c == calls[n] IN
        Returned(c) =>
            /\ c.count > 0 => c.start = LastRow(c.before) + 1
            /\ \A p \in DOMAIN c.before : c.after[p] = c.before[p]
            /\ \A p \in DOMAIN c.after \ DOMAIN c.before :
                  \/ p[1] = 1 /\ c.after[p] = NoneV
                  \/ p[1] \in c.start..(c.start + c.count - 1)
            /\ \A m \in 1..(n - 1) :
                  (calls[m].kind # "skipped" /\ calls[m].ts.name = c.ts.name
                     /\ \A q \in (m + 1)..(n - 1) :
                           calls[q].kind = "skipped" \/ calls[q].ts.name # c.ts.name)
                  => c.before = calls[m].after

C7_Witness ==
    /\ Len(calls) = 2
    /\ Returned(calls[1]) /\ Returned(calls[2])
    /\ calls[1].ts.name = calls[2].ts.name
    /\ calls[1].count >= 2 /\ calls[2].count >= 2
    /\ <<2, 1>> \in DOMAIN calls[1].before
    /\ calls[1].start = 4
    /\ calls[2].start = calls[1].start + calls[1].count
    /\ calls[2].after # calls[2].before

\* C8: an output value is written only into the column whose trimmed row-1
\* header text equals the mapping's target column; a value whose target column
\* is not in the header is dropped alone: the other values of the row are
\* written and the row still takes one row index.
C8_HeaderAligned ==
    \A n \in CallIdx : Returned(calls[n]) => HeaderAligned(calls[n])

C8_Witness ==
    \E n \in CallIdx :
        LET c == calls[n] IN
        /\ Returned(c) /\ c.count >= 2
        /\ ColZ \in DOMAIN c.rows[1]
        /\ \A j \in ColumnsOf(c.before) : TrimmedHeader(c.before, j) # ColZ
        /\ CellValue(c.before, 1, 2) = Str(<<" ", "N", " ">>)
        /\ ColN \in DOMAIN c.rows[1]
        /\ c.after[<<c.start, 2>>] = c.rows[1][ColN]
        /\ c.after[<<c.start + 1, 1>>] = c.rows[2][ColA]

\* C9: run() processes the target sheet specs in the order of the
\* specification, and within one target sheet the k-th appended row is the one
\* resolved from the k-th row of the base table, under both row policies.
C9_SpecAndRowOrder ==
    /\ \A n \in CallIdx : calls[n].ts = mapping.target_sheets[n]
    /\ pc \in {"sheets", "saved"} => ti = Len(calls) + 1
    /\ \A n \in CallIdx :
          LET c == calls[n] IN
          Returned(c) =>
              \A k \in 1..c.count :
                  /\ \A j \in 1..Len(MappingsOf(c.ts)) :
                        LET mp == MappingsOf(c.ts)[j] IN
                        ("from" \in DOMAIN mp /\ Len(mp.from) = 1 /\ mp.from[1].sheet = c.base)
                            => c.res[k][j].cand =
                                  << Str(df_map[c.base].rows[k][mp.from[1].column]) >>
                  /\ \A key \in DOMAIN c.rows[k] : \A j \in ColumnsOf(c.before) :
                        (TrimmedHeader(c.before, j) = key /\ c.rows[k][key] # NoneV
                           /\ \A j2 \in ColumnsOf(c.before) :
                                 TrimmedHeader(c.before, j2) = key => j2 <= j)
                        => CellValue(c.after, c.start + k - 1, j) = c.rows[k][key]

C9_Witness ==
    /\ Len(calls) = 2
    /\ calls[1].kind = "append" /\ calls[2].kind = "one_to_one"
    /\ Returned(calls[1]) /\ Returned(calls[2])
    /\ calls[1].count >= 2 /\ calls[2].count >= 2
    /\ calls[1].rows[1] # calls[1].rows[2]
    /\ calls[2].rows[1] # calls[2].rows[2]
    /\ calls[2].after # calls[2].before

\* C10: the output workbook is persisted at most once per run() and only after
\* every target sheet spec has been processed; when loading the inputs or
\* processing a target sheet raises, run() ends there and the output path is
\* never written.
C10_SavedOnceAfterAllSheets ==
    /\ saves <= 1
    /\ saves = 0 => out = <<>>
    /\ saves = 1 =>
          /\ pc = "saved"
          /\ Len(calls) = Len(mapping.target_sheets)
          /\ \A n \in CallIdx : calls[n].kind = "skipped" \/ ~calls[n].raised
          /\ out = <<wb>>
    /\ (\E n \in CallIdx : calls[n].kind # "skipped" /\ calls[n].raised) =>
          /\ pc = "raised" /\ saves = 0 /\ out = <<>>
          /\ calls[Len(calls)].raised
    /\ pc = "raised" => (saves = 0 /\ out = <<>>)

C10_Witness ==
    /\ pc = "raised"
    /\ Len(calls) = 2
    /\ Returned(calls[1]) /\ calls[1].count >= 1 /\ calls[1].after # calls[1].before
    /\ calls[2].raised
    /\ wb # template
    /\ out = <<>>

(***************************************************************************)
(* Properties of the joins and of the lookup registry (Spec).              *)
(***************************************************************************)
Loaded == pc \in {"loaded", "sheets", "saved"} \/ calls # <<>>
FromOf(mp) == IF "from" \in DOMAIN mp THEN mp.from ELSE <<>>
WhereOf(mp) == IF "where" \in DOMAIN mp THEN mp.where ELSE EmptyDict
BaseRow(c, k) == df_map[c.base].rows[k]
KeyOf(row) == IF join_key \in DOMAIN row THEN row[join_key] ELSE <<>>

\* the rows of the table that hold the join-key value and satisfy every
\* field=value pair of the filter, in table order
JoinedRows(tbl, key, where) ==
    SelectSeq(tbl.rows,
              LAMBDA r : /\ join_key \in DOMAIN r
                         /\ r[join_key] = key
                         /\ \A f \in DOMAIN where : f \in DOMAIN r /\ r[f] = where[f])

ColumnValues(rows, col) ==
    IF rows # <<>> /\ col \in DOMAIN rows[1] THEN [i \in 1..Len(rows) |-> Str(rows[i][col])]
    ELSE <<>>

\* C14: under one_to_one a source reference to a table other than the base
\* table yields the referenced column's values of exactly the rows of that
\* table whose join-key value equals the base row's and which satisfy every
\* field=value pair of the filter, in table order; the empty list when no row
\* has that join-key value.
C14_JoinYieldsMatchingRows ==
    \A n \in CallIdx :
        LET c == calls[n] IN
        (c.kind = "one_to_one" /\ ~c.raised) =>
            \A k \in 1..c.count : \A j \in 1..Len(MappingsOf(c.ts)) :
                LET mp == MappingsOf(c.ts)[j] IN
                (Len(FromOf(mp)) = 1 /\ FromOf(mp)[1].sheet # c.base
                    /\ FromOf(mp)[1].sheet \in DOMAIN source) =>
                    c.res[k][j].cand =
                        ColumnValues(JoinedRows(source[FromOf(mp)[1].sheet],
                                                KeyOf(BaseRow(c, k)), WhereOf(mp)),
                                     FromOf(mp)[1].column)

\* the sequences one after the other
RECURSIVE InOrder(_)
InOrder(seqs) ==
    IF seqs = <<>> THEN <<>>
    ELSE InOrder(SubSeq(seqs, 1, Len(seqs) - 1)) \o seqs[Len(seqs)]

\* what one source reference contributes for the k-th base row of call c
Contribution(c, k, mp, f) ==
    IF f.sheet = c.base THEN << Str(Get(BaseRow(c, k), f.column, <<>>)) >>
    ELSE IF c.kind = "append" \/ f.sheet \notin DOMAIN df_map THEN <<>>
    ELSE get_values_from_source(df_map, [cells |-> BaseRow(c, k), base_sheet |-> c.base],
                                f, WhereOf(mp), join_key, groups).vals

\* C15: the candidate list of a column mapping is the concatenation, in
\* declaration order, of what its source references yield; a reference to the
\* base table yields the base row's own value of the column and nothing else;
\* a mapping without source references has no candidates.
C15_CandidatesInDeclarationOrder ==
    \A n \in CallIdx :
        LET c == calls[n] IN
        Returned(c) =>
            \A k \in 1..c.count : \A j \in 1..Len(MappingsOf(c.ts)) :
                LET mp == MappingsOf(c.ts)[j] IN
                /\ c.res[k][j].cand =
                      InOrder([i \in 1..Len(FromOf(mp)) |-> Contribution(c, k, mp, FromOf(mp)[i])])
                /\ FromOf(mp) = <<>> => c.res[k][j].cand = <<>>

C15_Witness ==
    \E n \in CallIdx :
        LET c == calls[n] IN
        /\ c.kind = "one_to_one" /\ ~c.raised /\ c.count >= 1
        /\ \E j \in 1..Len(MappingsOf(c.ts)) :
              /\ Len(FromOf(MappingsOf(c.ts)[j])) = 2
              /\ FromOf(MappingsOf(c.ts)[j])[2].sheet = c.base
              /\ Len(c.res[1][j].cand) = 3
              /\ c.res[1][j].cand[1] = Str(<<"f", "1">>)
              /\ c.res[1][j].cand[3] = Str(<<" ", "a", "1">>)

\* C16: a source reference to a table other than the base table that has no
\* join-key column yields no candidate, for every base row, also one whose
\* own join-key value is missing or empty.
C16_TableWithoutJoinKeyYieldsNothing ==
    \A n \in CallIdx :
        LET c == calls[n] IN
        (c.kind = "one_to_one" /\ ~c.raised) =>
            \A k \in 1..c.count : \A j \in 1..Len(MappingsOf(c.ts)) :
                LET mp == MappingsOf(c.ts)[j] IN
                (Len(FromOf(mp)) = 1 /\ FromOf(mp)[1].sheet # c.base
                    /\ FromOf(mp)[1].sheet \in DOMAIN source
                    /\ join_key \notin source[FromOf(mp)[1].sheet].columns) =>
                    c.res[k][j].cand = <<>>

\* C17: once the source workbook is loaded no table changes: every table of
\* run() holds exactly the rows of its source sheet, whatever the mapping
\* specification contains.
C17_TablesKeepSourceRows ==
    Loaded => df_map = source

\* a source whose load fails: the file or the sheet cannot be read, or the
\* sheet lacks the key column or the value column
SourceFails(ds) ==
    \/ ds.path \notin DOMAIN dict_files
    \/ "sheet" \in DOMAIN ds /\ \A i \in 1..Len(dict_files[ds.path]) :
                                    dict_files[ds.path][i].name # ds.sheet
    \/ LET df == read_dict_sheet(dict_files, ds.path, Get(ds, "sheet", NoSource)).table
       IN  ds.key_column \notin df.columns \/ ds.value_column \notin df.columns

DictSourcesOf(mp) == IF "dict_sources" \in DOMAIN mp THEN mp.dict_sources ELSE <<>>

\* C19: an external dictionary source whose load fails (bad path, missing
\* columns) is skipped alone: the registry is the one the inline dictionaries
\* and the other sources give, and run() goes on to the target sheets.
C19_FailedSourceSkippedAlone ==
    Loaded =>
        LOOKUP_TABLES =
            load_dict_sources(Get(mapping, "dict", EmptyDict),
                              SelectSeq(DictSourcesOf(mapping), LAMBDA ds : ~SourceFails(ds)),
                              dict_files)

(***************************************************************************)
(* Properties of one resolution on its own (SpecChain).                    *)
(***************************************************************************)
Resolved == pc = "resolve" /\ cin.op = "resolve" /\ cres # <<>>
ChainOf(mp) == IF "transform" \in DOMAIN mp THEN mp.transform ELSE <<>>
IsUnknownStep(step) == "name" \in DOMAIN step /\ step.name \notin TRANSFORMS

\* the outcome after the first k steps of the chain, taken one after the other
RECURSIVE ChainAfter(_, _, _)
ChainAfter(vals, chain, k) ==
    IF k = 0 THEN Out(vals)
    ELSE LET prev == ChainAfter(vals, chain, k - 1)
         IN  IF prev.raised THEN prev
             ELSE IF IsUnknownStep(chain[k]) THEN prev
             ELSE apply_step(chain[k], prev.out)

\* C11: apply_chain applies the steps in declared order, each step taking the
\* output sequence of the step before it; a step whose name is not in the
\* registry leaves the sequence as it is and the steps after it are applied.
C11_StepsInOrderUnknownSkipped ==
    Resolved =>
        LET chain == ChainOf(cin.mp)
            last == ChainAfter(cin.vals, chain, Len(chain))
        IN  /\ cres[1].raised = last.raised
            /\ ~last.raised => cres[1].chain_out = last.out

C11_Witness ==
    /\ Resolved
    /\ Len(ChainOf(cin.mp)) = 2
    /\ IsUnknownStep(ChainOf(cin.mp)[1])
    /\ ChainOf(cin.mp)[2] = [name |-> "join_agg"]
    /\ cin.vals = <<SA, SA, SB>>
    /\ ~cres[1].raised
    /\ cres[1].chain_out = << Str(<<"a", ",", " ", "b">>) >>

\* C12: resolving one column mapping never raises, whatever the candidate
\* values (string, number, list, dict, None) and whatever the named steps of
\* the chain, registered or not, and their parameter objects.
C12_ResolutionNeverRaises ==
    (Resolved /\ \A k \in 1..Len(ChainOf(cin.mp)) : "name" \in DOMAIN ChainOf(cin.mp)[k]) =>
        ~cres[1].raised

DeclaredDefault(mp) == IF "default" \in DOMAIN mp THEN mp.default ELSE Str(<<>>)

\* the first candidate and the single step of the chain
FirstValue == cin.vals[1]
OnlyStep == ChainOf(cin.mp)[1]
OneStepResolved ==
    Resolved /\ cin.vals # <<>> /\ Len(ChainOf(cin.mp)) = 1 /\ "name" \in DOMAIN OnlyStep

\* a string that float() does not read once the thousands separators are gone
NotANumber(v) ==
    v.t = "str" /\ strip(v.s) # <<>> /\ ~IsFloatText(Replace(strip(v.s), <<",">>, <<>>))

NotADate(v, step) ==
    v.t = "str" /\ strip(v.s) # <<>> /\ _try_parse_date(v.s, step.params.input_formats) = NoneV

TemplateFails(v, step) ==
    /\ v.t \in {"str", "int", "none"}
    /\ ~format(step.params.template, [k \in {<<"x">>} |-> _to_str(v)]).ok

\* the resolution errors of the claim, for the first candidate and a chain
\* of one step
ParseError ==
    \/ OnlyStep.name = "number_parse" /\ NotANumber(FirstValue)
    \/ OnlyStep.name = "date_parse" /\ NotADate(FirstValue, OnlyStep)

PassThroughError ==
    \/ IsUnknownStep(OnlyStep)
    \/ OnlyStep.name = "format_each" /\ TemplateFails(FirstValue, OnlyStep)

\* C13 (as stated): after a value resolution error (an unparseable number or
\* date, a failed template rendering, an unknown step) the value written is
\* the passed-through original value or the mapping's declared default.
C13_ErrorGivesOriginalOrDefault ==
    (OneStepResolved /\ (ParseError \/ PassThroughError)) =>
        /\ ~cres[1].raised
        /\ cres[1].final \in {FirstValue, Str(_to_str(FirstValue)), DeclaredDefault(cin.mp)}

\* C13 (amended): a value number_parse or date_parse cannot parse resolves to
\* None, whatever default is declared; a failed template rendering resolves
\* to the string form of the original value and an unknown step to the
\* original value itself.
C13_ParseErrorGivesNone ==
    OneStepResolved =>
        /\ ParseError => (~cres[1].raised /\ cres[1].final = NoneV)
        /\ IsUnknownStep(OnlyStep) => (~cres[1].raised /\ cres[1].final = FirstValue)
        /\ (OnlyStep.name = "format_each" /\ TemplateFails(FirstValue, OnlyStep)) =>
              (~cres[1].raised /\ cres[1].final = Str(_to_str(FirstValue)))

C13_Witness ==
    /\ OneStepResolved
    /\ OnlyStep.name = "number_parse"
    /\ FirstValue = Str(<<"a", "b", "c">>)
    /\ DeclaredDefault(cin.mp) = Str(<<"d">>)
    /\ cres[1].final = NoneV

LookedUp == pc = "resolve" /\ cin.op = "lookup" /\ cres # <<>>
Min(S) == CHOOSE m \in S : \A x \in S : m <= x

\* the table entry of the first of the candidates that is a key of the
\* table, None when none is
FirstEntry(table, cands) ==
    LET hits == {j \in 1..Len(cands) : InTable(table, cands[j])}
    IN  IF table = EmptyDict \/ hits = {} THEN NoneV ELSE TableAt(table, cands[Min(hits)])

StrippedAndInteger(key) ==
    <<Str(strip(key.s))>>
    \o (IF IsIntText(strip(key.s)) THEN <<IntV(IntOf(strip(key.s)))>> ELSE <<>>)

IsScalar(key) == key.t \notin {"list", "dict"}

ActiveV == Str(<<"A", "c", "t", "i", "v", "e">>)

\* C18 (as stated): the key is tried verbatim, then, for a string, stripped,
\* then integer-parsed; the entry of the first candidate in the table is
\* returned, None on a miss; with a table holding "1": "Active" the integer 1
\* and the string " 1 " give "Active" (the two keys of the example are held to
\* the example only).
C18_RawStrippedInteger ==
    (LookedUp /\ IsScalar(cin.key)) =>
        /\ ~cres[1].raised
        /\ ~(cin.table = TableSt /\ cin.key \in {IntV(1), Str(<<" ", "1", " ">>)}) =>
              cres[1].ret =
                 FirstEntry(LOOKUP_TABLES[cin.table],
                            <<cin.key>> \o (IF cin.key.t = "str"
                                            THEN StrippedAndInteger(cin.key) ELSE <<>>))
        /\ (cin.table = TableSt /\ cin.key \in {IntV(1), Str(<<" ", "1", " ">>)}) =>
              cres[1].ret = ActiveV

\* C18 (amended): the key is tried verbatim, then, for a string, stripped and
\* then integer-parsed, and for any other key as its string form str(key);
\* the entry of the first candidate in the table is returned, None on a miss
\* (a list or a dict as the key raises when the table is not empty).
C18_RawStrippedIntegerOrStr ==
    LookedUp =>
        /\ cres[1].raised = (~IsScalar(cin.key) /\ LOOKUP_TABLES[cin.table] # EmptyDict)
        /\ IsScalar(cin.key) =>
              cres[1].ret =
                 FirstEntry(LOOKUP_TABLES[cin.table],
                            <<cin.key>> \o (IF cin.key.t = "str"
                                            THEN StrippedAndInteger(cin.key)
                                            ELSE <<Str(py_str(cin.key))>>))
        /\ (cin.table = TableSt /\ cin.key \in {IntV(1), Str(<<" ", "1", " ">>)}) =>
              cres[1].ret = ActiveV

C18_Witness ==
    /\ LookedUp
    /\ cin.table = TableSt
    /\ cin.key = IntV(1)
    /\ cres[1].ret = ActiveV

Joined == pc = "resolve" /\ cin.op = "join_agg" /\ cres # <<>>

\* the strings join_agg works on: the items of a list value, else the value
FlatStrings(values) ==
    Flatten([j \in 1..Len(values) |->
                IF values[j].t = "list"
                THEN [i \in 1..Len(values[j].items) |-> _to_str(values[j].items[i])]
                ELSE <<_to_str(values[j])>>])

\* the first occurrences, in order
FirstOccurrences(seq) ==
    LET keep == {j \in 1..Len(seq) : \A i \in 1..(j - 1) : seq[i] # seq[j]}
        pos == SelectSeq([j \in 1..Len(seq) |-> j], LAMBDA j : j \in keep)
    IN  [k \in 1..Len(pos) |-> seq[pos[k]]]

\* the strings one after the other with the separator between them
RECURSIVE Separated(_, _)
Separated(sep, parts) ==
    IF parts = <<>> THEN <<>>
    ELSE IF Len(parts) = 1 THEN parts[1]
    ELSE Separated(sep, SubSeq(parts, 1, Len(parts) - 1)) \o sep \o parts[Len(parts)]

JoinSep == IF "sep" \in DOMAIN cin.params THEN cin.params.sep ELSE <<",", " ">>
JoinUnique == IF "unique" \in DOMAIN cin.params THEN cin.params.unique ELSE TRUE
JoinStrings ==
    IF JoinUnique THEN FirstOccurrences(FlatStrings(cin.vals)) ELSE FlatStrings(cin.vals)

JoinExamples ==
    (cin.vals = <<SA, SA, SB>> /\ JoinSep = <<",", " ">>) =>
        cres[1] = << Str(IF JoinUnique THEN <<"a", ",", " ", "b">>
                         ELSE <<"a", ",", " ", "a", ",", " ", "b">>) >>

\* C20 (as stated): join_agg returns one element: the strings of the
\* flattened values, without the repeated ones when unique, joined with the
\* separator; ["a","a","b"] gives ["a, b"] when unique and ["a, a, b"] when
\* not; an empty input gives [""].
C20_JoinsAllStrings ==
    Joined =>
        /\ cres[1] = << Str(Separated(JoinSep, JoinStrings)) >>
        /\ JoinExamples
        /\ cin.vals = <<>> => cres[1] = << Str(<<>>) >>

\* C20 (amended): join_agg returns one element: the non-empty strings of the
\* flattened values, without the repeated ones when unique, joined with the
\* separator; the examples and the empty input as stated.
C20_JoinsNonEmptyStrings ==
    Joined =>
        /\ cres[1] = << Str(Separated(JoinSep, SelectSeq(JoinStrings, LAMBDA s : s # <<>>))) >>
        /\ JoinExamples
        /\ cin.vals = <<>> => cres[1] = << Str(<<>>) >>

C20_Witness ==
    /\ Joined
    /\ cin.vals = <<SA, Str(<<>>), SB>>
    /\ JoinSep = <<",", " ">>
    /\ cres[1] = << Str(<<"a", ",", " ", "b">>) >>

DateParsed == pc = "resolve" /\ cin.op = "date_parse" /\ cres # <<>>

\* the timestamp a declared pattern reads in the text, None when it does not
\* parse it
ParsedBy(text, pattern) == to_datetime_format(text, _java_dt_to_py(pattern))

\* the declared patterns that parse the text
ParsingPatterns(text, fmts) == {j \in 1..Len(fmts) : ParsedBy(text, fmts[j]) # NoneV}

\* C24: date_parse tries the declared input patterns in declared order and the
\* first one that parses the string gives the result; the free-form and the
\* bare-epoch readings are used only for strings no declared pattern parses.
C24_DeclaredPatternsFirst ==
    DateParsed =>
        LET text == strip(cin.txt)
            hits == ParsingPatterns(text, cin.fmts)
        IN  hits # {} => cres[1] = ParsedBy(text, cin.fmts[Min(hits)])

DictApplied == pc = "resolve" /\ cin.op = "dict" /\ cres # <<>>

\* the table name, keep_original and default a params object declares
NamedTable(p) ==
    IF ~IsDictParams(p) THEN (IF p.t = "str" THEN p.s ELSE <<>>)
    ELSE IF "table" \in DOMAIN p THEN p.table ELSE <<>>
KeepsOriginal(p) ==
    IF IsDictParams(p) /\ "keep_original" \in DOMAIN p THEN p.keep_original ELSE TRUE
DictDefault(p) ==
    IF IsDictParams(p) /\ "default" \in DOMAIN p THEN p.default ELSE Str(<<>>)
RegistryTable(name) ==
    IF name \in DOMAIN LOOKUP_TABLES THEN LOOKUP_TABLES[name] ELSE EmptyDict

\* the entry the key matching finds for a scalar value, None on a miss
MatchedEntry(table, v) ==
    FirstEntry(table, <<v>> \o (IF v.t = "str" THEN StrippedAndInteger(v)
                                ELSE <<Str(py_str(v))>>))

DictExpected(v, p) ==
    IF NamedTable(p) = <<>> THEN v
    ELSE IF MatchedEntry(RegistryTable(NamedTable(p)), v) # NoneV
    THEN MatchedEntry(RegistryTable(NamedTable(p)), v)
    ELSE IF KeepsOriginal(p) /\ v # NoneV /\ v # Str(<<>>) THEN v
    ELSE DictDefault(p)

\* C25: the dict step maps each scalar value v to the table entry its key
\* matching hits; on a miss it gives v itself when keep_original is true and v
\* is neither None nor the empty string, and the declared default otherwise;
\* a step that names no table passes the values through unchanged.
C25_DictStepFallbacks ==
    DictApplied =>
        /\ ~cres[1].raised
        /\ Len(cres[1].out) = Len(cin.vals)
        /\ \A j \in 1..Len(cin.vals) : cres[1].out[j] = DictExpected(cin.vals[j], cin.params)

C25_Witness ==
    /\ DictApplied
    /\ cin.vals = <<IntV(1), Str(<<" ", "a">>), Str(<<"z">>)>>
    /\ cin.params = [table |-> TableSt, keep_original |-> FALSE, default |-> Str(<<"?">>)]
    /\ cres[1].out = <<ActiveV, Str(<<"A">>), Str(<<"?">>)>>

\* the names are given by the sheet naming of one conversion
NamesGiven == sheet_names # NoRun /\ sheet_names.names # <<>>

\* C23: for any sequence of input names passed to _sanitize_sheet_name with one
\* shared used map, every returned sheet name is at most 31 characters long,
\* contains none of the characters [ ] : * ? / \, is non-empty, and differs
\* from every name returned earlier in the sequence
C23_SheetNamesValidAndDistinct ==
    sheet_names # NoRun =>
        \A i \in 1..Len(sheet_names.names) :
            LET given == sheet_names.names[i]
            IN  /\ Len(given) <= 31
                /\ \A k \in 1..Len(given) :
                       given[k] \notin {"[", "]", ":", "*", "?", "/", "\\"}
                /\ given # <<>>
                /\ \A j \in 1..(i - 1) : sheet_names.names[j] # given

\* the suffix first tried is in use: "a", "a_1", "a" are named a, a_1, a_2
C23_Witness ==
    /\ NamesGiven
    /\ sheet_names.keys = << <<"a">>, <<"a", "_", "1">>, <<"a">> >>
    /\ sheet_names.names = << <<"a">>, <<"a", "_", "1">>, <<"a", "_", "2">> >>

\* the returns of acquire() and the calls of set_cooldown, in the order made
LimiterRuns == limiter # NoRun
ReturnTimes ==
    LET returns == SelectSeq(limiter.events, LAMBDA e : e.kind = "return")
    IN  [i \in 1..Len(returns) |-> returns[i].t]

\* C22: for a RateLimiter(max_calls, period) shared by concurrently calling
\* threads, in every time window of length period, [w, w + period), at most
\* max_calls calls to acquire() return
C22_AtMostMaxCallsPerWindow ==
    LimiterRuns =>
        \A w \in 0..MaxTime :
            Cardinality({i \in DOMAIN ReturnTimes :
                            w <= ReturnTimes[i] /\ ReturnTimes[i] < w + limiter.period})
                <= limiter.max_calls

\* two returns at one tick fill the window, a thread has to wait, and the
\* third return comes exactly one period after the first
C22_Witness ==
    /\ LimiterRuns
    /\ limiter.max_calls = 2
    /\ Len(ReturnTimes) = 3
    /\ ReturnTimes[1] = ReturnTimes[2]
    /\ ReturnTimes[3] = ReturnTimes[1] + limiter.period
    /\ \E th \in Threads : limiter.threads[th].at = "sleep"

\* C27: after set_cooldown(s) is called at time t, no call to acquire() returns
\* at a time earlier than t + s, and a later set_cooldown with a shorter
\* duration never moves the cooldown deadline earlier
C27_CooldownHoldsAndNeverShrinks ==
    LimiterRuns =>
        \A i \in 1..Len(limiter.events) :
            limiter.events[i].kind = "cooldown" =>
                /\ \A j \in (i + 1)..Len(limiter.events) :
                       limiter.events[j].kind = "return" =>
                           limiter.events[j].t >= limiter.events[i].t + limiter.events[i].s
                /\ limiter.events[i].after >= limiter.events[i].before
                /\ limiter._cooldown_until >= limiter.events[i].t + limiter.events[i].s

\* a cooldown of 2 at time 0, one of -1 at time 1 that leaves the
\* deadline at 2, and the first return of acquire() at time 2
C27_Witness ==
    /\ LimiterRuns
    /\ Len(limiter.events) = 3
    /\ limiter.events[1] = LimiterEvent("cooldown", 0, 2, 0, 2)
    /\ limiter.events[2] = LimiterEvent("cooldown", 1, 0 - 1, 2, 2)
    /\ limiter.events[3] = LimiterEvent("return", 2, 0, 2, 2)

SearchRuns == search # NoRun
Throttled(resp) ==
    resp.kind = "http_error" /\ (resp.status = 429 \/ resp.code \in {9499, 99991400})

\* C26: in search_contracts and search_contracts_by_number each page request is
\* sent at most 4 times, a retry being made only after HTTP 429 or throttle
\* code 9499/99991400; when the limit is reached or the HTTP error is not a
\* throttle, search_contracts raises and search_contracts_by_number returns
\* the items collected so far, so the call ends at the latest with the fourth
\* throttled request of a page
C26_BoundedRetries ==
    SearchRuns =>
        /\ search.sends <= 4 /\ search.most_sends <= 4
        /\ \A r \in search.retried : r[1] = 429 \/ r[2] \in {9499, 99991400}
        /\ (search.last.kind = "http_error" /\ (search.sends = 4 \/ ~Throttled(search.last))) =>
               IF search.method = "search_contracts"
               THEN search.at = "raised"
               ELSE search.at = "returned" /\ search.ret = search.items

\* the second page of search_contracts_by_number is throttled four times:
\* the call returns the items of the first page
C26_Witness ==
    /\ SearchRuns
    /\ search.method = "search_contracts_by_number"
    /\ search.pages = 1
    /\ search.sends = 4
    /\ search.last = Response("http_error", 429, NoCode, 0, FALSE)
    /\ search.at = "returned"
    /\ search.ret = 2

FetchRuns == fetch # NoRun
PassIdx == 1..Len(fetch.passes)
KeysOf(codes) == {codes[i] : i \in 1..Len(codes)}

\* C21: run_fetch performs at most 4 passes; every key processed in pass n+1
\* is a key that failed in pass n, and the loop stops as soon as a pass ends
\* with no failed key
C21_RetriesOnlyFailedKeys ==
    FetchRuns =>
        /\ Len(fetch.passes) <= 4
        /\ fetch.attempt <= 4
        /\ \A n \in PassIdx :
               /\ fetch.passes[n].attempt = n
               /\ n > 1 => KeysOf(fetch.passes[n].codes) \subseteq fetch.passes[n - 1].failed
               /\ n < Len(fetch.passes) => fetch.passes[n].failed # {}
        /\ (fetch.at \in {"pass", "pass_end"} /\ fetch.attempt > 1) =>
               /\ fetch.attempt = Len(fetch.passes) + 1
               /\ KeysOf(fetch.current_codes) \subseteq fetch.passes[fetch.attempt - 1].failed
               /\ fetch.passes[fetch.attempt - 1].failed # {}
        /\ (fetch.at = "done" /\ fetch.passes # <<>>) =>
               \/ fetch.passes[Len(fetch.passes)].failed = {}
               \/ Len(fetch.passes) = 4

\* k1 finds nothing in any pass: four passes are made, the last three on k1 alone
C21_Witness ==
    /\ FetchRuns
    /\ fetch.at = "done"
    /\ Len(fetch.passes) = 4
    /\ fetch.passes[1].codes = <<"k2", "k1">>
    /\ fetch.passes[1].failed = {"k1"}
    /\ \A n \in 2..4 : fetch.passes[n].codes = <<"k1">>

\* C28: in every pass of run_fetch, every key in that pass's input list gets
\* at least one status record carrying that pass's attempt number, also when
\* limit_contracts is set
C28_EveryKeyHasStatusRecord ==
    FetchRuns =>
        \A n \in PassIdx :
            \A key \in KeysOf(fetch.passes[n].codes) :
                \E i \in 1..Len(fetch.passes[n].rows) :
                    /\ fetch.passes[n].rows[i].key = key
                    /\ fetch.passes[n].rows[i].attempt = fetch.passes[n].attempt

\* C29: a key for which a pass emits a status record "success" is not in that
\* pass's failed set and is not processed again in the next pass, including
\* when its contract id was already written earlier in the run
C29_SuccessIsNotRetried ==
    FetchRuns =>
        \A n \in PassIdx :
            \A i \in 1..Len(fetch.passes[n].rows) :
                fetch.passes[n].rows[i].status = "success" =>
                    /\ fetch.passes[n].rows[i].key \notin fetch.passes[n].failed
                    /\ n < Len(fetch.passes) =>
                           fetch.passes[n].rows[i].key \notin KeysOf(fetch.passes[n + 1].codes)

\* C30: within one run_fetch, across all keys and all passes, each contract id
\* is appended to the JSONL record stream at most once, and only after its
\* detail was fetched without error
C30_EachContractWrittenOnce ==
    FetchRuns =>
        \A i \in 1..Len(fetch.jsonl) :
            /\ \A j \in 1..Len(fetch.jsonl) : fetch.jsonl[j].id = fetch.jsonl[i].id => j = i
            /\ fetch.jsonl[i].detail = "ok"
            /\ fetch.jsonl[i].id # ""

\* the detail of c1 fails in pass 1 and is fetched in pass 2 for k1; k2, which
\* finds c1 too, is given a success row in pass 2 and c1 is written once
C30_Witness ==
    /\ FetchRuns
    /\ Len(fetch.passes) >= 2
    /\ fetch.passes[1].failed = {"k1", "k2"}
    /\ Len(fetch.jsonl) = 1
    /\ fetch.jsonl[1] = [id |-> "c1", code |-> "k1", attempt |-> 2, detail |-> "ok"]
    /\ \E i \in 1..Len(fetch.passes[2].rows) :
           fetch.passes[2].rows[i] = StatusRow("k2", "c1", "success", "", 2)

====
